---- MODULE Spec2Model ----
(***************************************************************************)
(* A model of biruda's bundle run: the manifest reader (loadPackageJson),  *)
(* the workspace root locator (findWorkspaceRoot), the tracer's policy     *)
(* layer (traceFiles) and the recursive manifest-declared file expander    *)
(* (resolveModuleRoot, getDependencyPathsFromModule) as bundle drives it.  *)
(*                                                                         *)
(* A path is a sequence of segments: <<"ws", "app">> is /ws/app and <<>>   *)
(* is the filesystem root.  A relative path may start with ".." segments.  *)
(***************************************************************************)
EXTENDS Integers, Sequences, FiniteSets, TLC

VARIABLES
    pc,          \* the position of bundle: "root", "trace", "expand", "manifest", "done", "failed"
    disk,        \* the manifests on disk: directory -> manifest
    workDir,     \* workingDirectory, the start location
    wsCur,       \* findWorkspaceRoot: currentDirectory (a path string)
    wsRoot,      \* findWorkspaceRoot's result: workspaceRoot
    cache,       \* p-memoize's Map of loadPackageJson: cache key -> manifest
    fsReads,     \* every run of loadPackageJsonInner, by the directory it read
    nextObj,     \* the number of URL objects allocated so far
    traceResult, \* what nodeFileTrace returns: fileList, esmFileList, reasons
    files,       \* traceFiles' result: the traced files
    extraModules,\* resolvedConfig.extraModules
    extras,      \* bundle's extras set
    modulePaths, \* bundle's visited set
    tasks,       \* the calls of getDependencyPathsFromModule: call id -> frame
    descendLog,  \* every call of shouldDescend: [task, root, name, result]
    includeLog,  \* every call of includeCallback: [task, path, added]
    warnings     \* the names logger.warn was called for in the resolve catch

VARIABLES
    lookups,     \* every call of loadPackageJson: [arg, throwOnMissing, threw, value]
    run,         \* the number of the bundle invocation in this process
    archCall,    \* archiveFiles: its position, the index into extras, its promise, its warnings
    archive,     \* the archiver: the entries queued, how many are written, aborted, finalize()
    output,      \* the write stream: the file exists, holds data, is closed, has the close listener
    process,     \* the process: exitCode, and whether an unhandled rejection ended it
    fsKinds,     \* what lstat finds at each extras path
    extrasOrder, \* the extras set in its iteration order
    config,      \* bundle's options and config file: entryPoints and outDir as given
    effects,     \* the operations bundle has invoked, in order
    clock,       \* the time in ticks
    throttle,    \* basicThrottle's closure: callable, and the deadline of its timer
    reports,     \* the events the throttled function was called with, and what became of each
    fixture,     \* traceDependencies: initialDeps and what is installed below startPath
    circuitBreaker, \* traceDependencies: the set of package directories seen
    frames,      \* the activations of recursiveResolveDependencies, innermost last
    traced       \* traceDependencies: its promise, its value, the directories expanded

\* the state outside the traversal of one bundle run, by what uses it
loadVars == <<lookups>>

runVars == <<run>>

archiveVars == <<archCall, archive, output, process, fsKinds, extrasOrder>>

startVars == <<config, effects>>

throttleVars == <<clock, throttle, reports>>

depVars == <<fixture, circuitBreaker, frames, traced>>

extVars == <<loadVars, runVars, archiveVars, startVars, throttleVars, depVars>>

\* the parts of that state while nothing uses them
LoadIdle == lookups = << >>

RunIdle == run = 1

ArchiveIdle ==
    /\ archCall = << >>
    /\ archive = << >>
    /\ output = << >>
    /\ process = << >>
    /\ fsKinds = << >>
    /\ extrasOrder = << >>

StartIdle ==
    /\ config = << >>
    /\ effects = << >>

ThrottleIdle ==
    /\ clock = 0
    /\ throttle = << >>
    /\ reports = << >>

DepIdle ==
    /\ fixture = << >>
    /\ circuitBreaker = {}
    /\ frames = << >>
    /\ traced = << >>

\* that state while nothing uses it
ExtIdle ==
    /\ LoadIdle
    /\ RunIdle
    /\ ArchiveIdle
    /\ StartIdle
    /\ ThrottleIdle
    /\ DepIdle

vars == <<pc, disk, workDir, wsCur, wsRoot, cache, fsReads, nextObj,
          traceResult, files, extraModules, extras, modulePaths, tasks,
          descendLog, includeLog, warnings, extVars>>

(***************************************************************************)
(* Bounds of the model.                                                    *)
(***************************************************************************)
\* the depth of the deepest start directory findWorkspaceRoot is given
MaxDepth == 3
\* the most dependencies one manifest declares
MaxDeps == 2
\* the most entries of extraModules
MaxExtra == 2
\* the number of files a trace result ranges over
MaxFiles == 3

(***************************************************************************)
(* Paths (node's path module, on segment sequences).                       *)
(***************************************************************************)
IsPrefix(p, q) == Len(p) <= Len(q) /\ SubSeq(q, 1, Len(p)) = p

\* path.dirname: the parent directory; the root is its own parent
dirname(p) == IF p = <<>> THEN <<>> ELSE SubSeq(p, 1, Len(p) - 1)

\* the directories from p up to the root, p included
Ancestors(p) == { SubSeq(p, 1, n) : n \in 0..Len(p) }

RECURSIVE CommonLen(_, _)
CommonLen(a, b) ==
    IF a = <<>> \/ b = <<>> \/ Head(a) # Head(b) THEN 0
    ELSE 1 + CommonLen(Tail(a), Tail(b))

\* path.relative(from, to): up out of from, then down into to
relative(from, to) ==
    LET c == CommonLen(from, to)
    IN  [i \in 1..(Len(from) - c) |-> ".."] \o SubSeq(to, c + 1, Len(to))

\* path.join(base, rel) / new URL(rel, base): ".." segments are resolved
RECURSIVE join(_, _)
join(base, rel) ==
    IF rel = <<>> THEN base
    ELSE IF Head(rel) = ".." THEN join(dirname(base), Tail(rel))
    ELSE join(Append(base, Head(rel)), Tail(rel))

\* a path string as the code holds it: "/ws/app/" keeps its trailing slash,
\* "/" is the root
PathString(segs, trailing) ==
    [kind |-> "str", segs |-> segs, slash |-> (trailing /\ segs # <<>>), obj |-> 0]

\* a URL object: two URL objects are the same Map key only if they are the
\* same object
UrlObject(segs, obj) ==
    [kind |-> "url", segs |-> segs, slash |-> TRUE, obj |-> obj]

\* the URL object bundle makes for workingDirectory: one per invocation,
\* none of them a module root's
WorkDirObj == 0 - run

(***************************************************************************)
(* Manifests.                                                              *)
(***************************************************************************)
NoManifest ==
    [exists |-> FALSE, hasWs |-> FALSE, ws |-> {}, hasFiles |-> FALSE,
     files |-> <<>>, deps |-> <<>>]

PlainManifest ==
    [exists |-> TRUE, hasWs |-> FALSE, ws |-> {}, hasFiles |-> FALSE,
     files |-> <<>>, deps |-> <<>>]

WsManifest(patterns) == [PlainManifest EXCEPT !.hasWs = TRUE, !.ws = patterns]

PkgManifest(hasFiles, globs, deps) ==
    [PlainManifest EXCEPT !.hasFiles = hasFiles, !.files = globs, !.deps = deps]

\* the names of the directories of the start chain, outermost first
ChainNames == <<"ws", "app", "svc", "api", "v1", "x6", "x7", "x8">>

\* the deepest start directory: /ws/app/svc when MaxDepth is 3
Chain == SubSeq(ChainNames, 1, MaxDepth)

\* the workspace patterns a manifest of the chain may declare ("*" is a
\* wildcard segment); {} is "workspaces": []
WsChoices ==
    { {}, {<<"app">>}, {<<"*">>}, {<<"app", "*">>}, {<<"packages", "*">>},
      {<<"packages", "*">>, <<"app", "svc">>} }

ChainManifests == {NoManifest, PlainManifest} \cup { WsManifest(w) : w \in WsChoices }

\* micromatch([rel], [pat], {bash: true}): under bash a star also matches
\* across slashes, so a "*" segment stands for one or more segments
RECURSIVE Match(_, _)
Match(rel, pat) ==
    IF pat = <<>> THEN rel = <<>>
    ELSE IF Head(pat) = "*"
         THEN \E k \in 1..Len(rel) : Match(SubSeq(rel, k + 1, Len(rel)), Tail(pat))
    ELSE rel # <<>> /\ Head(rel) = Head(pat) /\ Match(Tail(rel), Tail(pat))

ManifestAt(dir) == IF dir \in DOMAIN disk THEN disk[dir] ELSE NoManifest

(***************************************************************************)
(* loadPackageJson: loadPackageJsonInner memoized by its first argument.   *)
(***************************************************************************)
\* loadPackageJsonInner(dirOrFile, throwOnMissing): the manifest at the
\* location, null (NoManifest) when there is none, or a throw
loadPackageJsonInner(arg, throwOnMissing) ==
    LET m == ManifestAt(arg.segs)
    IN  [threw |-> throwOnMissing /\ ~m.exists, value |-> m]

\* cacheKey: ([fdirOrFile]) => fdirOrFile -- the argument itself
cacheKey(arg) == arg

\* pMemoize(loadPackageJsonInner, {cacheKey}): a hit answers from the Map, a
\* miss runs the inner function and stores a result that did not throw
loadPackageJson(c, reads, arg, throwOnMissing) ==
    LET key == cacheKey(arg)
    IN  IF key \in DOMAIN c
        THEN [cache |-> c, reads |-> reads, threw |-> FALSE, value |-> c[key],
              hit |-> TRUE]
        ELSE LET r == loadPackageJsonInner(arg, throwOnMissing)
             IN  [cache |-> IF r.threw THEN c ELSE (key :> r.value) @@ c,
                  reads |-> Append(reads, arg.segs),
                  threw |-> r.threw, value |-> r.value, hit |-> FALSE]

(***************************************************************************)
(* findWorkspaceRoot.                                                      *)
(***************************************************************************)
\* what one turn of the loop decides from the manifest it loaded:
\* "found" (return currentDirectory), "initial" (return initial), "up"
WorkspaceDecisionAnyManifest(manifest, relativePath) ==
    IF manifest.exists THEN "found" ELSE "up"

WorkspaceDecisionKeepSearching(manifest, relativePath) ==
    IF manifest.exists /\ manifest.hasWs
       /\ (relativePath = <<>> \/ \E p \in manifest.ws : Match(relativePath, p))
    THEN "found"
    ELSE "up"

WorkspaceDecision(manifest, relativePath) ==
    IF manifest.exists /\ manifest.hasWs
    THEN IF relativePath = <<>> \/ \E p \in manifest.ws : Match(relativePath, p)
         THEN "found"
         ELSE "initial"
    ELSE "up"

\* one turn of the do-while loop: load, decide, move to the parent
FindWorkspaceRootStep ==
    /\ pc = "root"
    /\ LET r == loadPackageJson(cache, fsReads, wsCur, FALSE)
           d == WorkspaceDecision(r.value, relative(wsCur.segs, workDir))
           parent == PathString(dirname(wsCur.segs), FALSE)
       IN  /\ cache' = r.cache
           /\ fsReads' = r.reads
           /\ IF d = "found"
              THEN wsRoot' = wsCur.segs /\ pc' = "trace" /\ wsCur' = wsCur
              ELSE IF d = "initial" \/ parent = wsCur
              THEN wsRoot' = workDir /\ pc' = "trace" /\ wsCur' = wsCur
              ELSE wsRoot' = wsRoot /\ pc' = "root" /\ wsCur' = parent
    /\ UNCHANGED <<disk, workDir, nextObj, traceResult, files, extraModules,
                   extras, modulePaths, tasks, descendLog, includeLog, warnings>>
    /\ UNCHANGED extVars

(***************************************************************************)
(* traceFiles: the policy layer around nodeFileTrace.                      *)
(***************************************************************************)
\* the files a trace may reach, as absolute paths; the first is the entry
\* file the compiler emitted
TracePaths ==
    << <<"ws", "app", "dist", "index.js">>,
       <<"ws", "node_modules", "b", "index.js">>,
       <<"ws", "node_modules", "b", "lib", "x.js">>,
       <<"ws", "packages", "a", "index.js">>,
       <<"ws", "app", "dist", "chunk.js">>,
       <<"node_modules", "c", "index.js">> >>

TraceUniverse == { TracePaths[i] : i \in 1..MaxFiles }

ReasonTypes == {"initial", "dependency", "resolve"}

\* what the trace finds about one file: not reached; reached but ignored
\* (it has a reason and is in no list); or listed, with the type of its
\* first reason, and in esmFileList or not
TraceStatus ==
    { [reached |-> FALSE, ignored |-> FALSE, type |-> "dependency", esm |-> FALSE] }
    \cup { [reached |-> TRUE, ignored |-> TRUE, type |-> t, esm |-> FALSE] :
             t \in ReasonTypes \ {"initial"} }
    \cup { [reached |-> TRUE, ignored |-> FALSE, type |-> t, esm |-> e] :
             t \in ReasonTypes, e \in BOOLEAN }

\* a path as a string relative to the workspace root, as fileList and extras
\* hold it
RelString(segs) == [kind |-> "rel", segs |-> segs]

\* URL.toString() of a file URL: an absolute file:// string
UrlString(segs) == [kind |-> "file://", segs |-> segs]

\* nodeFileTrace(entryPoints, {base}): files above base are left out, the
\* others are named relative to base
nodeFileTrace(trace, base) ==
    LET under == { f \in DOMAIN trace : trace[f].reached /\ IsPrefix(base, f) }
        rel(f) == RelString(relative(base, f))
    IN  [fileList |-> { rel(f) : f \in { g \in under : ~trace[g].ignored } },
         esmFileList |-> { rel(f) : f \in { g \in under : trace[g].esm } },
         reasons |-> { [file |-> rel(f), type |-> trace[f].type,
                        ignored |-> trace[f].ignored] : f \in under }]

\* the mutant of traceFiles that forgets to exclude the entry points
traceFilesKeepEntries(result) == result.fileList \cup result.esmFileList

\* traceFiles: fileList and esmFileList without the resolved entry points
traceFiles(result) ==
    LET resolvedEntryPoints ==
            { r.file : r \in { q \in result.reasons :
                                 ~q.ignored /\ q.type = "initial" /\ q.type # "resolve" } }
    IN  { f \in result.fileList \cup result.esmFileList : f \notin resolvedEntryPoints }

TraceFilesStep ==
    /\ pc = "trace"
    /\ files' = traceFiles(nodeFileTrace(traceResult, wsRoot))
    /\ pc' = "expand"
    /\ UNCHANGED <<disk, workDir, wsCur, wsRoot, cache, fsReads, nextObj,
                   traceResult, extraModules, extras, modulePaths, tasks,
                   descendLog, includeLog, warnings>>
    /\ UNCHANGED extVars

(***************************************************************************)
(* The installed packages (the part of the filesystem that stays fixed).   *)
(***************************************************************************)
PkgA == <<"ws", "packages", "a">>
PkgB == <<"ws", "node_modules", "b">>
PkgC == <<"node_modules", "c">>
PkgCore == <<"ws", "packages", "core-lib">>

PkgRoots == {PkgA, PkgB, PkgC, PkgCore}

\* a workspace package that is linked in the working directory's node_modules
\* only
PkgP == <<"ws", "packages", "p">>

\* node_modules entries: [at] is the directory holding node_modules, [real]
\* the real path of the package (a and @s/a are symlinks into packages/, and
\* so is @s/core, whose directory is not named after it; c is installed above
\* /ws)
Installed ==
    { [at |-> <<"ws">>, name |-> "a", real |-> PkgA, entry |-> <<"dist">>],
      [at |-> <<"ws">>, name |-> "@s/a", real |-> PkgA, entry |-> <<"dist">>],
      [at |-> <<"ws">>, name |-> "b", real |-> PkgB, entry |-> <<>>],
      [at |-> <<>>, name |-> "c", real |-> PkgC, entry |-> <<>>],
      [at |-> <<"ws">>, name |-> "@s/core", real |-> PkgCore, entry |-> <<"dist">>],
      [at |-> <<"ws", "app">>, name |-> "p", real |-> PkgP, entry |-> <<>>] }

\* the runtime's built-in modules
Builtins == {"fs"}

\* name.split('/'): the segments of a module name
NameSegs(name) ==
    CASE name = "@s/a" -> <<"@s", "a">>
      [] name = "@s/core" -> <<"@s", "core">>
      [] name = "@types/x" -> <<"@types", "x">>
      [] OTHER -> <<name>>

\* name.startsWith('@types') || name.startsWith('type-') ||
\* name.startsWith('babel-runtime'): the names the catch does not warn about
QuietName(name) ==
    \/ Head(NameSegs(name)) = "@types"
    \/ name \in {"type-fest", "babel-runtime"}

\* the files of each package and the glob patterns its manifest lists
PkgFiles(root) ==
    IF root = PkgB
    THEN { <<"package.json">>, <<"index.js">>, <<"lib", "x.js">>, <<"lib", "x.d.ts">> }
    ELSE { <<"package.json">>, <<"dist", "index.js">> }

IsDts(file) == file[Len(file)] \in {"x.d.ts"}

PkgHasFiles(root) == root = PkgB

PkgGlobs(root) == IF root = PkgB THEN << <<"index.js">>, <<"lib", "*">> >> ELSE << >>

\* the names each manifest may depend on, and the names extraModules may hold
DepUniverse(root) ==
    CASE root = PkgA -> <<"b", "fs", "gone">>
      [] root = PkgB -> <<"a", "@s/a", "c">>
      [] root = PkgC -> <<"a", "@types/x", "@s/core">>
      [] OTHER -> << >>

ExtraUniverse == {"a", "b"}

\* the subsequences of u of at most n elements: Object.keys of a dependencies
\* object of at most n entries
RECURSIVE SubSeqs(_, _)
SubSeqs(u, n) ==
    IF u = << >> \/ n = 0 THEN { << >> }
    ELSE SubSeqs(Tail(u), n)
         \cup { <<Head(u)>> \o t : t \in SubSeqs(Tail(u), n - 1) }

\* the sequences over S of at most n elements
RECURSIVE SeqsUpTo(_, _)
SeqsUpTo(S, n) ==
    IF n = 0 THEN { << >> }
    ELSE SeqsUpTo(S, n - 1)
         \cup { Append(t, x) : t \in { q \in SeqsUpTo(S, n - 1) : Len(q) = n - 1 }, x \in S }

\* glob(pattern, {cwd, ignore: ['**/*.d.ts']}): a "*" matches one segment
GlobMatch(file, pat) ==
    /\ Len(file) = Len(pat)
    /\ \A i \in 1..Len(pat) : pat[i] = "*" \/ pat[i] = file[i]

\* the directories of a package: glob matches a directory as it matches a file
PkgDirs(root) ==
    UNION { { SubSeq(f, 1, n) : n \in 1..(Len(f) - 1) } : f \in PkgFiles(root) }

\* a glob without the ignore option
globNoIgnore(root, pat) ==
    { f \in PkgFiles(root) \cup PkgDirs(root) : GlobMatch(f, pat) }

glob(root, pat) ==
    { f \in PkgFiles(root) \cup PkgDirs(root) : GlobMatch(f, pat) /\ ~IsDts(f) }

(***************************************************************************)
(* resolveModuleRoot.                                                      *)
(***************************************************************************)
\* the directories from p up to the root, nearest first
RECURSIVE Upward(_)
Upward(p) == IF p = << >> THEN << << >> >> ELSE <<p>> \o Upward(dirname(p))

\* require.resolve(name, {paths}): a built-in resolves to its own name;
\* otherwise node_modules is searched from each of paths upward
RECURSIVE LookupFrom(_, _)
LookupFrom(name, dirs) ==
    IF dirs = << >> THEN [kind |-> "notfound", file |-> << >>]
    ELSE LET hit == { i \in Installed : i.at = Head(dirs) /\ i.name = name }
         IN  IF hit # {}
             THEN LET i == CHOOSE j \in hit : TRUE
                  IN  [kind |-> "file", file |-> i.real \o i.entry \o <<"index.js">>]
             ELSE LookupFrom(name, Tail(dirs))

RECURSIVE requireResolve(_, _)
requireResolve(name, paths) ==
    IF name \in Builtins THEN [kind |-> "builtin", file |-> << >>]
    ELSE IF paths = << >> THEN [kind |-> "notfound", file |-> << >>]
    ELSE LET r == LookupFrom(name, Upward(Head(paths)))
         IN  IF r.kind = "file" THEN r ELSE requireResolve(name, Tail(paths))

\* packageDirectory({cwd}): the nearest directory upward that holds a manifest
RECURSIVE packageDirectory(_)
packageDirectory(dir) ==
    IF ManifestAt(dir).exists THEN <<dir>>
    ELSE IF dir = << >> THEN << >>
    ELSE packageDirectory(dirname(dir))

\* findUp(matcher, {cwd}): the nearest directory upward, cwd included, that
\* holds a directory named packageRhs with a package.json in it
RECURSIVE findUp(_, _)
findUp(dir, packageRhs) ==
    IF ManifestAt(Append(dir, packageRhs)).exists THEN <<Append(dir, packageRhs)>>
    ELSE IF dir = << >> THEN << >>
    ELSE findUp(dirname(dir), packageRhs)

\* findUp's mutant: the nearest directory upward that holds any package.json
findUpNearestManifest(dir, packageRhs) == packageDirectory(dir)

\* resolveModuleRoot's mutant: without the test for a native module, the
\* name that resolved to itself goes on to the walk for its manifest
resolveModuleRootNoSentinel(name, base, workspaceRoot, from) ==
    LET initialPaths == <<base, workspaceRoot>>
        resolvedFrom == IF from = << >> THEN [kind |-> "none", file |-> << >>]
                        ELSE requireResolve(from[1], initialPaths)
        fromPkgDir == IF resolvedFrom.kind = "file"
                      THEN packageDirectory(resolvedFrom.file)
                      ELSE << >>
        resolvedModuleEntryPoint == requireResolve(name, fromPkgDir \o initialPaths)
        segs == NameSegs(name)
        pathToModuleRoot == findUp(dirname(resolvedModuleEntryPoint.file), segs[Len(segs)])
    IN  IF resolvedFrom.kind = "notfound" \/ resolvedModuleEntryPoint.kind = "notfound"
        THEN [kind |-> "notfound", root |-> << >>]
        ELSE IF pathToModuleRoot = << >> THEN [kind |-> "error", root |-> << >>]
        ELSE [kind |-> "root", root |-> pathToModuleRoot[1]]

\* resolveModuleRoot(name, base, workspaceRoot, from): "builtin" (the node:
\* URL), "root" (the module root), "notfound" (MODULE_NOT_FOUND thrown by
\* require.resolve) or "error" (any other throw); from is << >> or <<name>>
resolveModuleRoot(name, base, workspaceRoot, from) ==
    LET initialPaths == <<base, workspaceRoot>>
        resolvedFrom == IF from = << >> THEN [kind |-> "none", file |-> << >>]
                        ELSE requireResolve(from[1], initialPaths)
        fromPkgDir == IF resolvedFrom.kind = "file"
                      THEN packageDirectory(resolvedFrom.file)
                      ELSE << >>
        paths == fromPkgDir \o initialPaths
        resolvedModuleEntryPoint == requireResolve(name, paths)
        segs == NameSegs(name)
        pathToModuleRoot == findUp(dirname(resolvedModuleEntryPoint.file), segs[Len(segs)])
    IN  IF resolvedFrom.kind = "notfound" THEN [kind |-> "notfound", root |-> << >>]
        ELSE IF resolvedModuleEntryPoint.kind = "notfound"
        THEN [kind |-> "notfound", root |-> << >>]
        ELSE IF resolvedModuleEntryPoint.kind = "builtin"
        THEN [kind |-> "builtin", root |-> << >>]
        ELSE IF pathToModuleRoot = << >> THEN [kind |-> "error", root |-> << >>]
        ELSE [kind |-> "root", root |-> pathToModuleRoot[1]]

\* the filesystem lookups of resolveModuleRoot(name, base, workspaceRoot,
\* from), in order: "resolve from" and "packageDirectory" for the parent,
\* "resolve" for the name, "findUp" for the module root
resolveProbes(name, base, workspaceRoot, from) ==
    LET initialPaths == <<base, workspaceRoot>>
        resolvedFrom == IF from = << >> THEN [kind |-> "none", file |-> << >>]
                        ELSE requireResolve(from[1], initialPaths)
        fromPkgDir == IF resolvedFrom.kind = "file"
                      THEN packageDirectory(resolvedFrom.file)
                      ELSE << >>
        resolvedModuleEntryPoint == requireResolve(name, fromPkgDir \o initialPaths)
    IN  (IF from = << >> THEN << >> ELSE <<"resolve from">>)
        \o (IF resolvedFrom.kind = "file" THEN <<"packageDirectory">> ELSE << >>)
        \o (IF resolvedFrom.kind = "notfound" THEN << >> ELSE <<"resolve">>)
        \o (IF resolvedFrom.kind # "notfound" /\ resolvedModuleEntryPoint.kind = "file"
            THEN <<"findUp">> ELSE << >>)

(***************************************************************************)
(* bundle's callbacks.                                                     *)
(***************************************************************************)
\* relativeFileUrl(from, to)
relativeFileUrl(from, to) == relative(from, to)

\* shouldDescend's mutant: it answers but never records the module root
shouldDescendForgetful(visited, modulePath) ==
    [include |-> modulePath \notin visited, visited |-> visited]

\* shouldDescend(modulePath, moduleName): true, and the root recorded, only
\* for a root that is not in modulePaths yet
shouldDescend(visited, modulePath) ==
    [include |-> modulePath \notin visited, visited |-> visited \cup {modulePath}]

\* the key includeCallback looks up in files:
\* new URL(`./${relPath}`, workspaceRoot).toString()
AlreadyTracedKey(relPath) == UrlString(join(wsRoot, relPath))

\* includeCallback(path) on st = [extras, log]: the path relative to the
\* workspace root is added to extras unless files has the key
includeCallback(st, task, path) ==
    LET relPath == relativeFileUrl(wsRoot, path)
        add == AlreadyTracedKey(relPath) \notin files
    IN  [extras |-> IF add THEN st.extras \cup {RelString(relPath)} ELSE st.extras,
         log |-> Append(st.log, [task |-> task, path |-> RelString(relPath), added |-> add])]

RECURSIVE SetToSeq(_)
SetToSeq(S) ==
    IF S = {} THEN << >>
    ELSE LET x == CHOOSE y \in S : TRUE IN <<x>> \o SetToSeq(S \ {x})

\* pkgFiles.forEach((file) => includeCallback(new URL(file, moduleRoot)))
RECURSIVE IncludeAll(_, _, _, _)
IncludeAll(st, task, root, pkgFiles) ==
    IF pkgFiles = << >> THEN st
    ELSE IncludeAll(includeCallback(st, task, join(root, Head(pkgFiles))), task, root,
                    Tail(pkgFiles))

(***************************************************************************)
(* getDependencyPathsFromModule.  A call is named by its place in the call *)
(* tree: <<2>> is bundle's call for extraModules[2], <<2, 1>> that call's  *)
(* call for its first dependency.                                          *)
(***************************************************************************)
Frame(name, base, parents, at, why, root, obj, deps, globIdx) ==
    [name |-> name, base |-> base, parents |-> parents, pc |-> at, why |-> why,
     root |-> root, obj |-> obj, deps |-> deps, globIdx |-> globIdx]

\* the mutant of Fulfilled whose calls for the dependencies are started and
\* not awaited: dependencies.forEach((pkgDep) => { getDependencyPathsFromModule(...) })
FulfilledDetached(id) ==
    /\ id \in DOMAIN tasks
    /\ tasks[id].pc \in {"done", "children"}

\* the call has returned, with all the calls it awaits
RECURSIVE Fulfilled(_)
Fulfilled(id) ==
    /\ id \in DOMAIN tasks
    /\ \/ tasks[id].pc = "done"
       \/ /\ tasks[id].pc = "children"
          /\ \A i \in 1..Len(tasks[id].deps) : Fulfilled(Append(id, i))

\* the call has thrown, or a call it awaits has
RECURSIVE Rejected(_)
Rejected(id) ==
    /\ id \in DOMAIN tasks
    /\ \/ tasks[id].pc = "rejected"
       \/ /\ tasks[id].pc = "children"
          /\ \E i \in 1..Len(tasks[id].deps) : Rejected(Append(id, i))

\* the mutant of serialPromiseMap that maps in parallel: Promise.all(arr.map(fn))
serialPromiseMapParallel(id, i) == TRUE

\* serialPromiseMap(arr, fn): fn runs for element i once the promise of
\* element i - 1 has resolved
serialPromiseMap(id, i) == i = 1 \/ Fulfilled(Append(id, i - 1))

\* bundle's for await (const name of extraModules) { await ... }
forAwait(i) == i = 1 \/ Fulfilled(<<i - 1>>)

\* the catch of resolveModuleRoot's promise: "skip" (return undefined),
\* "throw" (rethrow), or "ok"
ResolveCatchStrict(r, name) ==
    IF r.kind = "notfound" THEN IF QuietName(name) THEN "skip" ELSE "throw"
    ELSE IF r.kind = "error" THEN "throw"
    ELSE "ok"

ResolveCatch(r, name) ==
    IF r.kind = "notfound" THEN "skip"
    ELSE IF r.kind = "error" THEN "throw"
    ELSE "ok"

\* the names of the calls a call (or bundle, << >>) makes, in order
Callees(id) == IF id = << >> THEN extraModules ELSE tasks[id].deps

CanStart(id, i) ==
    /\ i \in 1..Len(Callees(id))
    /\ Append(id, i) \notin DOMAIN tasks
    /\ IF id = << >> THEN pc = "expand" /\ forAwait(i)
       ELSE tasks[id].pc = "children" /\ serialPromiseMap(id, i)

\* the tail of a descended call, after its files are included: the alias
\* for a module outside node_modules, then the dependencies
AfterFiles(st, id, f, manifest) ==
    LET relPath == relativeFileUrl(wsRoot, f.root)
        aliased == relPath = << >> \/ Head(relPath) # "node_modules"
        st2 == IF aliased
               THEN includeCallback(st, id, join(wsRoot, <<"node_modules">> \o NameSegs(f.name)))
               ELSE st
    IN  [st |-> st2,
         frame |-> IF manifest.deps = << >>
                   THEN [f EXCEPT !.pc = "done", !.why = "leaf"]
                   ELSE [f EXCEPT !.pc = "children", !.deps = manifest.deps]]

\* the call starts: resolveModuleRoot, its catch, the node: check and
\* descendCallback, up to the await of loadPackageJson
Resolve(id, i) ==
    /\ CanStart(id, i)
    /\ LET name == Callees(id)[i]
           base == IF id = << >> THEN workDir ELSE tasks[id].root
           parents == IF id = << >> THEN << >> ELSE Append(tasks[id].parents, tasks[id].name)
           from == IF parents = << >> THEN << >> ELSE <<parents[Len(parents)]>>
           r == resolveModuleRoot(name, base, wsRoot, from)
           c == ResolveCatch(r, name)
           d == shouldDescend(modulePaths, r.root)
           me == Append(id, i)
           fr(at, why) == Frame(name, base, parents, at, why, r.root, nextObj, << >>, 0)
       IN  IF c = "skip"
           THEN /\ tasks' = (me :> fr("done", "notfound")) @@ tasks
                /\ warnings' = IF QuietName(name) THEN warnings ELSE warnings \cup {name}
                /\ UNCHANGED <<modulePaths, descendLog, nextObj>>
           ELSE IF c = "throw"
           THEN /\ tasks' = (me :> fr("rejected", "error")) @@ tasks
                /\ UNCHANGED <<modulePaths, descendLog, nextObj, warnings>>
           ELSE IF r.kind = "builtin"
           THEN /\ tasks' = (me :> fr("done", "builtin")) @@ tasks
                /\ UNCHANGED <<modulePaths, descendLog, nextObj, warnings>>
           ELSE /\ modulePaths' = d.visited
                /\ descendLog' = Append(descendLog,
                                        [task |-> me, root |-> r.root, name |-> name,
                                         result |-> d.include])
                /\ nextObj' = nextObj + 1
                /\ tasks' = (me :> IF d.include THEN fr("manifest", "")
                                   ELSE fr("done", "visited")) @@ tasks
                /\ UNCHANGED warnings
    /\ UNCHANGED <<pc, disk, workDir, wsCur, wsRoot, cache, fsReads, traceResult,
                   files, extraModules, extras, includeLog>>
    /\ UNCHANGED extVars

\* loadPackageJson(moduleRoot) has answered: without a files field the module
\* root is included and the call goes on to its dependencies
LoadManifest(id) ==
    /\ id \in DOMAIN tasks
    /\ tasks[id].pc = "manifest"
    /\ LET f == tasks[id]
           r == loadPackageJson(cache, fsReads, UrlObject(f.root, f.obj), FALSE)
           st == [extras |-> extras, log |-> includeLog]
       IN  /\ cache' = r.cache
           /\ fsReads' = r.reads
           /\ IF ~r.value.exists
              THEN /\ tasks' = [tasks EXCEPT ![id] = [f EXCEPT !.pc = "rejected",
                                                               !.why = "nomanifest"]]
                   /\ UNCHANGED <<extras, includeLog>>
              ELSE IF r.value.hasFiles /\ r.value.files # << >>
              THEN /\ tasks' = [tasks EXCEPT ![id] = [f EXCEPT !.pc = "glob", !.globIdx = 1]]
                   /\ UNCHANGED <<extras, includeLog>>
              ELSE LET a == AfterFiles(IF r.value.hasFiles THEN st
                                       ELSE includeCallback(st, id, f.root),
                                       id, f, r.value)
                   IN  /\ tasks' = [tasks EXCEPT ![id] = a.frame]
                       /\ extras' = a.st.extras
                       /\ includeLog' = a.st.log
    /\ UNCHANGED <<pc, disk, workDir, wsCur, wsRoot, nextObj, traceResult, files,
                   extraModules, modulePaths, descendLog, warnings>>
    /\ UNCHANGED extVars

\* one glob of the files field has answered: its matches are included
Glob(id) ==
    /\ id \in DOMAIN tasks
    /\ tasks[id].pc = "glob"
    /\ LET f == tasks[id]
           manifest == ManifestAt(f.root)
           pkgFiles == SetToSeq(glob(f.root, manifest.files[f.globIdx]))
           st == IncludeAll([extras |-> extras, log |-> includeLog], id, f.root, pkgFiles)
           a == AfterFiles(st, id, f, manifest)
       IN  IF f.globIdx < Len(manifest.files)
           THEN /\ tasks' = [tasks EXCEPT ![id] = [f EXCEPT !.globIdx = f.globIdx + 1]]
                /\ extras' = st.extras
                /\ includeLog' = st.log
           ELSE /\ tasks' = [tasks EXCEPT ![id] = a.frame]
                /\ extras' = a.st.extras
                /\ includeLog' = a.st.log
    /\ UNCHANGED <<pc, disk, workDir, wsCur, wsRoot, cache, fsReads, nextObj,
                   traceResult, files, extraModules, modulePaths, descendLog, warnings>>
    /\ UNCHANGED extVars

(***************************************************************************)
(* bundle, after the loop over extraModules.                               *)
(***************************************************************************)
ExpansionFulfilled == \A i \in 1..Len(extraModules) : Fulfilled(<<i>>)

ExpansionRejected == \E i \in 1..Len(extraModules) : Rejected(<<i>>)

\* const packageJson = await loadPackageJson(workingDirectory)
BundleManifestStep ==
    /\ pc = "expand"
    /\ ExpansionFulfilled
    /\ LET r == loadPackageJson(cache, fsReads, UrlObject(workDir, WorkDirObj), FALSE)
       IN  cache' = r.cache /\ fsReads' = r.reads
    /\ pc' = "archive"
    /\ UNCHANGED <<disk, workDir, wsCur, wsRoot, nextObj, traceResult, files,
                   extraModules, extras, modulePaths, tasks, descendLog, includeLog,
                   warnings>>
    /\ UNCHANGED extVars

\* a call of getDependencyPathsFromModule threw: bundle's promise rejects
BundleFail ==
    /\ pc = "expand"
    /\ ExpansionRejected
    /\ pc' = "failed"
    /\ UNCHANGED <<disk, workDir, wsCur, wsRoot, cache, fsReads, nextObj, traceResult,
                   files, extraModules, extras, modulePaths, tasks, descendLog,
                   includeLog, warnings>>
    /\ UNCHANGED extVars

\* the value of wsRoot while findWorkspaceRoot has not returned
Pending == <<"?">>

\* a run of findWorkspaceRoot alone, from any start directory of the chain
\* and any manifests along it
InitRoot ==
    /\ pc = "root"
    /\ workDir \in Ancestors(Chain)
    /\ disk \in [Ancestors(Chain) -> ChainManifests]
    /\ wsCur = PathString(workDir, TRUE)
    /\ wsRoot = Pending
    /\ cache = << >>
    /\ fsReads = << >>
    /\ nextObj = 1
    /\ traceResult = << >>
    /\ files = {}
    /\ extraModules = << >>
    /\ extras = {}
    /\ modulePaths = {}
    /\ tasks = << >>
    /\ descendLog = << >>
    /\ includeLog = << >>
    /\ warnings = {}
    /\ ExtIdle

NextRoot == FindWorkspaceRootStep

SpecRoot == InitRoot /\ [][NextRoot]_vars

\* a run of traceFiles alone, on any trace result over the universe
InitTrace ==
    /\ pc = "trace"
    /\ workDir = <<"ws", "app">>
    /\ disk = << >>
    /\ wsCur = PathString(workDir, TRUE)
    /\ wsRoot \in {<<"ws">>, <<"ws", "app">>}
    /\ cache = << >>
    /\ fsReads = << >>
    /\ nextObj = 1
    /\ traceResult \in [TraceUniverse -> TraceStatus]
    /\ files = {}
    /\ extraModules = << >>
    /\ extras = {}
    /\ modulePaths = {}
    /\ tasks = << >>
    /\ descendLog = << >>
    /\ includeLog = << >>
    /\ warnings = {}
    /\ ExtIdle

NextTrace == TraceFilesStep

SpecTrace == InitTrace /\ [][NextTrace]_vars

(***************************************************************************)
(* A bundle run: findWorkspaceRoot, traceFiles, the expansion of the       *)
(* extraModules, the project's own manifest.                               *)
(***************************************************************************)
BundleWorkDir == <<"ws", "app">>

\* the manifests around the working directory: /ws declares the workspace
\* that holds /ws/app, or one that does not hold it
BundleLayouts ==
    { [d \in Ancestors(BundleWorkDir) |->
          IF d = <<"ws">> THEN m ELSE IF d = BundleWorkDir THEN PlainManifest ELSE NoManifest] :
      m \in {WsManifest({<<"*">>}), WsManifest({<<"packages", "*">>})} }

\* the traces of a bundle run: the entry file alone, or with files of b
BundleTraces ==
    { [f \in TraceUniverse |->
          IF f = TracePaths[1]
          THEN [reached |-> TRUE, ignored |-> FALSE, type |-> "initial", esm |-> TRUE]
          ELSE [reached |-> more, ignored |-> FALSE, type |-> "dependency", esm |-> FALSE]] :
      more \in BOOLEAN }

\* the package a name of the universes is installed as
NameTarget(name) ==
    CASE name \in {"a", "@s/a"} -> {PkgA}
      [] name = "b" -> {PkgB}
      [] name = "c" -> {PkgC}
      [] OTHER -> {}

Targets(names) == UNION { NameTarget(names[i]) : i \in 1..Len(names) }

\* the packages the calls can reach from the extraModules through the
\* dependencies deps, in at most n rounds
RECURSIVE Reachable(_, _, _)
Reachable(deps, from, n) ==
    IF n = 0 THEN from
    ELSE Reachable(deps, from \cup UNION { Targets(deps[r]) : r \in from }, n - 1)

\* The manifest of a package that no call reaches is never read: it is left
\* without dependencies, so that each run is explored once.
Init ==
    /\ pc = "root"
    /\ workDir = BundleWorkDir
    /\ extraModules \in SeqsUpTo(ExtraUniverse, MaxExtra)
    /\ \E layout \in BundleLayouts :
       \E a \in SubSeqs(DepUniverse(PkgA), MaxDeps) :
       \E b \in SubSeqs(DepUniverse(PkgB), MaxDeps) :
       \E c \in SubSeqs(DepUniverse(PkgC), MaxDeps) :
       LET deps == (PkgA :> a) @@ (PkgB :> b) @@ (PkgC :> c) @@ (PkgCore :> << >>)
       IN /\ \A r \in PkgRoots \ Reachable(deps, Targets(extraModules), Cardinality(PkgRoots)) :
                deps[r] = << >>
          /\ disk = layout @@ [r \in PkgRoots |->
                                  PkgManifest(PkgHasFiles(r), PkgGlobs(r), deps[r])]
    /\ wsCur = PathString(workDir, TRUE)
    /\ wsRoot = Pending
    /\ cache = << >>
    /\ fsReads = << >>
    /\ nextObj = 1
    /\ traceResult \in BundleTraces
    /\ files = {}
    /\ extras = {}
    /\ modulePaths = {}
    /\ tasks = << >>
    /\ descendLog = << >>
    /\ includeLog = << >>
    /\ warnings = {}
    /\ ExtIdle

\* the calls that may exist: the children of a call, or of bundle
CallIds == DOMAIN tasks \cup { << >> }

Next ==
    \/ FindWorkspaceRootStep
    \/ TraceFilesStep
    \/ \E id \in CallIds : \E i \in 1..(MaxDeps + MaxExtra) : Resolve(id, i)
    \/ \E id \in DOMAIN tasks : LoadManifest(id)
    \/ \E id \in DOMAIN tasks : Glob(id)
    \/ BundleManifestStep
    \/ BundleFail

Spec == Init /\ [][Next]_vars

(***************************************************************************)
(* The claims.                                                             *)
(***************************************************************************)
Finished == pc \in {"archive", "failed"}

\* the calls that passed shouldDescend
Descended == { id \in DOMAIN tasks : tasks[id].why \notin {"notfound", "builtin", "visited", "error"} }

\* the calls made from within call id
Descendants(id) == { t \in DOMAIN tasks : IsPrefix(id, t) /\ t # id }

\* the calls that called includeCallback
Includers == { includeLog[k].task : k \in DOMAIN includeLog }

\* the calls that called includeCallback with a path inside the module root
IncludersOf(root) ==
    { includeLog[k].task :
        k \in { n \in DOMAIN includeLog :
                  IsPrefix(relative(wsRoot, root), includeLog[n].path.segs) } }

\* what resolveModuleRoot answered to call id
ResolutionOf(id) ==
    LET f == tasks[id]
    IN  resolveModuleRoot(f.name, f.base, wsRoot,
                          IF f.parents = << >> THEN << >> ELSE <<f.parents[Len(f.parents)]>>)

\* the calls that are awaiting their own I/O (not a call they made)
Running == { id \in DOMAIN tasks : tasks[id].pc \in {"manifest", "glob"} }

\* the calls that may start now
Startable ==
    { c \in CallIds \X (1..(MaxDeps + MaxExtra)) : CanStart(c[1], c[2]) }

\* C1: within one bundle run shouldDescend answers true at most once for a
\* module root; a call that reaches a root again (cycle, diamond, another
\* name) has returned without any includeCallback and without any call of
\* its own, and the run fails only where a call threw.
C1_EachRootDescendedOnce ==
    /\ \A i, j \in DOMAIN descendLog :
          (descendLog[i].result /\ descendLog[j].result
             /\ descendLog[i].root = descendLog[j].root) => i = j
    /\ \A id, other \in Descended : tasks[id].root = tasks[other].root => id = other
    /\ \A id \in DOMAIN tasks :
          tasks[id].why = "visited" =>
             /\ tasks[id].pc = "done"
             /\ id \notin Includers
             /\ Descendants(id) = {}
    /\ pc = "failed" => \E id \in DOMAIN tasks : tasks[id].pc = "rejected"

\* C1's case: a root reached again under another name, in a run that went on
C1_Witness ==
    /\ pc = "archive"
    /\ \E id, first \in DOMAIN tasks :
          /\ tasks[id].why = "visited"
          /\ first \in Descended
          /\ tasks[first].root = tasks[id].root
          /\ tasks[first].name # tasks[id].name
    /\ \E id \in DOMAIN tasks : tasks[id].why = "visited" /\ Len(id) = 3

\* C2: the expansion terminates on every graph -- a call nests no deeper
\* than one level per module root recorded, and until the loop over
\* extraModules is over some call is running or may start -- and the files
\* of a module are included during at most one call.
C2_CyclesTerminate ==
    /\ modulePaths \subseteq PkgRoots
    /\ \A id \in DOMAIN tasks : Len(id) <= Cardinality(modulePaths) + 1
    /\ Cardinality(Descended) <= Cardinality(modulePaths)
    /\ pc = "expand" => \/ Running # {}
                        \/ Startable # {}
                        \/ ExpansionFulfilled
                        \/ ExpansionRejected
    /\ \A root \in PkgRoots : Cardinality(IncludersOf(root)) <= 1

\* C2's case: a finished run over the cycle a -> b -> a with b's files included
C2_Witness ==
    /\ pc = "archive"
    /\ extraModules # << >> /\ extraModules[1] = "a"
    /\ \E i \in DOMAIN disk[PkgA].deps : disk[PkgA].deps[i] = "b"
    /\ \E i \in DOMAIN disk[PkgB].deps : disk[PkgB].deps[i] = "a"
    /\ IncludersOf(PkgB) # {}
    /\ IncludersOf(PkgA) # {}
    /\ \E id \in DOMAIN tasks : tasks[id].why = "visited" /\ tasks[id].root = PkgA

\* C3: the traversal is serial -- a call exists only when every earlier
\* sibling has returned with all the calls below it, at most one call is
\* running or may start at any time, and a root shouldDescend accepted is in
\* the visited set at once.
C3_SerialTraversal ==
    /\ \A id \in DOMAIN tasks :
          \A j \in 1..(id[Len(id)] - 1) : Fulfilled(Append(dirname(id), j))
    /\ Cardinality(Running) + Cardinality(Startable) <= 1
    /\ \A k \in DOMAIN descendLog : descendLog[k].result => descendLog[k].root \in modulePaths

\* C3's case: a second sibling is running after the first one's own call, and
\* the second extra module after the whole first one
C3_Witness ==
    /\ Len(extraModules) = 2
    /\ <<2>> \in DOMAIN tasks
    /\ \E id \in DOMAIN tasks :
          /\ Len(tasks[id].deps) = 2
          /\ Append(id, 2) \in DOMAIN tasks
          /\ Descendants(Append(id, 1)) # {}

\* C4 (as claimed): no path is both traced and in extras, and includeCallback
\* does not add a path the tracer returned.
C4_NoPathTwice ==
    /\ files \cap extras = {}
    /\ \A k \in DOMAIN includeLog : includeLog[k].path \in files => ~includeLog[k].added

\* C5 (as claimed): no traced or included path leaves the workspace root, and
\* a call whose module root lies outside it throws.
C5_InsideWorkspaceRoot ==
    /\ \A f \in files \cup extras : f.segs = << >> \/ Head(f.segs) # ".."
    /\ \A id \in Descended : IsPrefix(wsRoot, tasks[id].root) \/ tasks[id].pc = "rejected"

C7_TraceFilesExcludesEntries ==
    pc = "expand" =>
       LET r == nodeFileTrace(traceResult, wsRoot)
           initial == { q.file : q \in { x \in r.reasons : x.type = "initial" } }
       IN  /\ files \cap initial = {}
           /\ \A f \in (r.fileList \cup r.esmFileList) \ initial : f \in files
           /\ files \subseteq r.fileList \cup r.esmFileList

\* C7's case: a trace with an entry file, an ignored file and a file kept
C7_Witness ==
    /\ pc = "expand"
    /\ files # {}
    /\ \E q \in nodeFileTrace(traceResult, wsRoot).reasons : q.type = "initial" /\ q.file \notin files
    /\ \E q \in nodeFileTrace(traceResult, wsRoot).reasons : q.ignored

\* the directories from the start upward whose manifest declares workspaces
Declaring == { d \in Ancestors(workDir) : ManifestAt(d).exists /\ ManifestAt(d).hasWs }

\* the nearest of them
NearestDeclaring == CHOOSE d \in Declaring : \A e \in Declaring : Len(e) <= Len(d)

\* the manifest at d declares the start location as a member
Includes(d) ==
    relative(d, workDir) = << >> \/ \E p \in ManifestAt(d).ws : Match(relative(d, workDir), p)

\* C8: findWorkspaceRoot terminates -- it loads the directories from the start
\* upward, each once, and can always take its next turn -- and returns the
\* nearest directory that declares workspaces when that declaration includes
\* the start; it returns the start when no directory declares any.
C8_NearestWorkspaceRoot ==
    /\ \A i \in DOMAIN fsReads : fsReads[i] = SubSeq(workDir, 1, Len(workDir) - i + 1)
    /\ pc = "root" => /\ ENABLED FindWorkspaceRootStep
                      /\ wsCur.segs = SubSeq(workDir, 1, Len(workDir) - Len(fsReads))
    /\ pc # "root" =>
          /\ Declaring = {} => wsRoot = workDir /\ Len(fsReads) = Len(workDir) + 1
          /\ (Declaring # {} /\ Includes(NearestDeclaring)) => wsRoot = NearestDeclaring

\* C8's case: the root found two levels up, past a directory without a
\* manifest and one whose manifest declares no workspaces
C8_Witness ==
    /\ pc # "root"
    /\ Len(workDir) = 3
    /\ wsRoot = SubSeq(workDir, 1, 1)
    /\ ManifestAt(workDir).exists /\ ~ManifestAt(workDir).hasWs
    /\ ~ManifestAt(dirname(workDir)).exists

\* C9: when the nearest manifest that declares workspaces does not include
\* the start, findWorkspaceRoot returns the start and has loaded nothing above
\* that manifest.
C9_StopsAtForeignWorkspace ==
    (pc # "root" /\ Declaring # {} /\ ~Includes(NearestDeclaring)) =>
       /\ wsRoot = workDir
       /\ \A i \in DOMAIN fsReads : Len(fsReads[i]) >= Len(NearestDeclaring)

\* C9's case: a workspace further up would have included the start
C9_Witness ==
    /\ pc # "root"
    /\ Declaring # {}
    /\ ~Includes(NearestDeclaring)
    /\ \E d \in Declaring : Includes(d) /\ Len(d) < Len(NearestDeclaring)
    /\ wsRoot = workDir

\* C10 (as claimed): no manifest location is read from the filesystem twice.
C10_OneReadPerLocation ==
    \A i, j \in DOMAIN fsReads : fsReads[i] = fsReads[j] => i = j

(***************************************************************************)
(* Sequences of manifest lookups.                                          *)
(***************************************************************************)
\* the number of lookups in a sequence
MaxLookups == 3

\* the locations looked up, and the URL objects that name them
LoadDirs == { <<"ws">>, <<"ws", "app">> }

LoadObjs == 1..2

\* the arguments of a lookup: a path string, or one of the URL objects
LoadArgs ==
    { PathString(d, FALSE) : d \in LoadDirs }
    \cup { UrlObject(d, o) : d \in LoadDirs, o \in LoadObjs }

\* one call loadPackageJson(arg, throwOnMissing), settled
Lookup(arg, throwOnMissing) ==
    /\ pc = "load"
    /\ Len(lookups) < MaxLookups
    /\ LET r == loadPackageJson(cache, fsReads, arg, throwOnMissing)
       IN  /\ cache' = r.cache
           /\ fsReads' = r.reads
           /\ lookups' = Append(lookups, [arg |-> arg, throwOnMissing |-> throwOnMissing,
                                          threw |-> r.threw, value |-> r.value,
                                          hit |-> r.hit])
    /\ UNCHANGED <<pc, disk, workDir, wsCur, wsRoot, nextObj, traceResult, files,
                   extraModules, extras, modulePaths, tasks, descendLog, includeLog,
                   warnings, runVars, archiveVars, startVars, throttleVars, depVars>>

InitLoad ==
    /\ pc = "load"
    /\ disk \in [LoadDirs -> {NoManifest, PlainManifest}]
    /\ workDir = << >>
    /\ wsCur = PathString(<< >>, TRUE)
    /\ wsRoot = Pending
    /\ cache = << >>
    /\ fsReads = << >>
    /\ nextObj = 1
    /\ traceResult = << >>
    /\ files = {}
    /\ extraModules = << >>
    /\ extras = {}
    /\ modulePaths = {}
    /\ tasks = << >>
    /\ descendLog = << >>
    /\ includeLog = << >>
    /\ warnings = {}
    /\ ExtIdle

NextLoad == \E arg \in LoadArgs : \E throwOnMissing \in BOOLEAN : Lookup(arg, throwOnMissing)

SpecLoad == InitLoad /\ [][NextLoad]_vars

\* C11 (as claimed): at a location without a manifest every throwing lookup
\* throws and every non-throwing lookup returns null, in any order of calls.
C11_MissingManifestByVariant ==
    \A k \in DOMAIN lookups :
       ~ManifestAt(lookups[k].arg.segs).exists =>
          IF lookups[k].throwOnMissing
          THEN lookups[k].threw
          ELSE ~lookups[k].threw /\ lookups[k].value = NoManifest

(***************************************************************************)
(* bundle called again in the same process.                                *)
(***************************************************************************)
\* the number of bundle invocations in one process
MaxRuns == 2

\* bundle is called again after it returned or threw.  Its extras, its
\* visited set and the calls of its traversal are new; loadPackageJson is
\* the module's one memoized function and keeps its Map; the manifest in
\* /ws may have been edited in between.
BundleAgain ==
    /\ pc \in {"archive", "failed"}
    /\ run < MaxRuns
    /\ run' = run + 1
    /\ pc' = "root"
    /\ \E layout \in BundleLayouts :
          disk' = [d \in DOMAIN disk |-> IF d \in DOMAIN layout THEN layout[d] ELSE disk[d]]
    /\ wsCur' = PathString(workDir, TRUE)
    /\ wsRoot' = Pending
    /\ files' = {}
    /\ extras' = {}
    /\ modulePaths' = {}
    /\ tasks' = << >>
    /\ UNCHANGED <<workDir, cache, fsReads, nextObj, traceResult, extraModules,
                   descendLog, includeLog, warnings, loadVars, archiveVars,
                   startVars, throttleVars, depVars>>

\* the runs whose traversal starts at module b alone
InitTwice ==
    /\ Init
    /\ extraModules = <<"b">>
    /\ traceResult = CHOOSE t \in BundleTraces : \A f \in DOMAIN t : t[f].reached

NextTwice ==
    \/ Next
    \/ BundleAgain

SpecTwice == InitTwice /\ [][NextTwice]_vars

\* bundle is at its call of findWorkspaceRoot
AtEntry == pc = "root" /\ wsCur = PathString(workDir, TRUE)

\* what findWorkspaceRoot returns for the manifests now on disk
WorkspaceRootOnDisk ==
    LET declaring == { d \in Ancestors(workDir) : disk[d].exists /\ disk[d].hasWs }
        nearest == CHOOSE d \in declaring : \A e \in declaring : Len(e) <= Len(d)
    IN  IF declaring # {}
           /\ (relative(nearest, workDir) = << >>
               \/ \E p \in disk[nearest].ws : Match(relative(nearest, workDir), p))
        THEN nearest
        ELSE workDir

\* C12 (as claimed): every bundle invocation starts with an empty visited set
\* and an empty manifest cache, and finds the workspace root of the manifests
\* that are on disk when it runs.
C12_FreshStatePerInvocation ==
    /\ AtEntry => modulePaths = {} /\ cache = << >>
    /\ pc \notin {"root", "load"} => wsRoot = WorkspaceRootOnDisk

(***************************************************************************)
(* Built-in modules.                                                       *)
(***************************************************************************)
\* the parent name call id passes to resolveModuleRoot, if any
FromOf(id) ==
    IF tasks[id].parents = << >> THEN << >>
    ELSE <<tasks[id].parents[Len(tasks[id].parents)]>>

\* the filesystem lookups resolveModuleRoot made for call id
ProbesOf(id) == resolveProbes(tasks[id].name, tasks[id].base, wsRoot, FromOf(id))

\* the calls for the name of a built-in module
BuiltinCalls == { id \in DOMAIN tasks : tasks[id].name \in Builtins }

\* the step in which such a call is made and returns
BuiltinStep == \E id \in DOMAIN tasks' \ DOMAIN tasks : tasks'[id].name \in Builtins

\* C13 (as claimed): for a built-in the resolution call for the name is the
\* only filesystem lookup of resolveModuleRoot.
C13_BuiltinOnlyResolves ==
    \A id \in BuiltinCalls : ProbesOf(id) = <<"resolve">>

\* C13 (amended): for a built-in nothing is looked up after the resolution
\* call for the name -- no findUp walk, no manifest -- while the lookups for
\* the parent name precede that call; the call of getDependencyPathsFromModule
\* returns at once, calls neither shouldDescend nor includeCallback, loads no
\* manifest, makes no call of its own, and its step changes neither the
\* visited set nor extras nor the manifest cache.
C13_BuiltinReturnsAtOnce ==
    /\ [](\A id \in BuiltinCalls :
             /\ tasks[id].pc = "done" /\ tasks[id].why = "builtin"
             /\ ProbesOf(id)[Len(ProbesOf(id))] = "resolve"
             /\ \A k \in DOMAIN ProbesOf(id) : ProbesOf(id)[k] # "findUp"
             /\ \A k \in DOMAIN descendLog : descendLog[k].task # id
             /\ id \notin Includers
             /\ Descendants(id) = {})
    /\ [][BuiltinStep =>
             UNCHANGED <<modulePaths, extras, cache, fsReads, descendLog, includeLog,
                         warnings, nextObj>>]_vars

\* C13's case: the built-in fs met as a dependency of a, in a run that went on
C13_Witness ==
    /\ pc = "archive"
    /\ \E id \in BuiltinCalls :
          /\ tasks[id].why = "builtin"
          /\ FromOf(id) = <<"a">>
          /\ ProbesOf(id) = <<"resolve from", "packageDirectory", "resolve">>
          /\ modulePaths # {}

(***************************************************************************)
(* archiveFiles (src/lib/archive.ts).                                      *)
(***************************************************************************)
\* the most entries of extras in one call
MaxArchExtras == 2

\* the workspace root, the working directory and the bundle's output in it
ArchWsRoot == <<"ws">>

ArchWorkDir == <<"ws", "app">>

ArchBundleSource == <<"ws", "app", "dist">>

\* the traced files: the working directory's manifest, and a dependency's file
ArchFiles ==
    { RelString(<<"app", "package.json">>),
      RelString(<<"node_modules", "b", "index.js">>) }

\* the extras: the alias of a workspace package, a wildcard, and a path the
\* caller gave in absolute form
ArchExtras ==
    { RelString(<<"node_modules", "a">>),
      RelString(<<"lib", "*">>),
      PathString(<<"ws", "LICENSE">>, FALSE) }

\* what access() and lstat() find at a path
FsKinds == {"missing", "directory", "file", "symlink", "other"}

\* the files a wildcard can match
ArchGlobFiles == { <<"ws", "lib", "x.js">>, <<"ws", "lib", "y.js">> }

\* format and compressionLevel
ArchFormats ==
    { [format |-> "zip", compressionLevel |-> 1],
      [format |-> "tar", compressionLevel |-> 0],
      [format |-> "tar", compressionLevel |-> 1] }

\* path.isAbsolute
isAbsolute(entry) == entry.kind = "str"

\* maybeMakeAbsolute(entry, baseDir)
maybeMakeAbsolute(entry, baseDir) ==
    IF isAbsolute(entry) THEN entry.segs ELSE join(baseDir, entry.segs)

\* path.includes('*')
looksGlobbish(path) == \E i \in DOMAIN path.segs : path.segs[i] = "*"

\* realpath of a symlink: a workspace package
realpath(absolutePath) == <<"ws", "packages", absolutePath[Len(absolutePath)]>>

\* a loop that hands a missing path to archive.file
extrasBranchAddsMissing(kind, globbish) ==
    IF kind # "missing"
    THEN IF kind \in {"directory", "file", "symlink"} THEN kind ELSE "ignored"
    ELSE IF globbish THEN "glob" ELSE "file"

\* the branch the extras loop takes for one path
extrasBranch(kind, globbish) ==
    IF kind # "missing"
    THEN IF kind \in {"directory", "file", "symlink"} THEN kind ELSE "ignored"
    ELSE IF globbish THEN "glob" ELSE "doesnt exist"

\* pkg.<format>, with .gz for a compressed tar
archiveFileName(format, compressionLevel) ==
    <<"pkg", format>> \o (IF format = "tar" /\ compressionLevel > 0 THEN <<"gz">> ELSE << >>)

\* one entry handed to the archiver: its name is the name the code passes
ArchEntry(type, name, source, from) ==
    [type |-> type, name |-> name, source |-> source, from |-> from]

\* archiver's sanitizePath: leading "/" and "../" are stripped
RECURSIVE StripDots(_)
StripDots(segs) ==
    IF segs # << >> /\ Head(segs) = ".." THEN StripDots(Tail(segs)) ELSE segs

sanitizePath(name) == RelString(StripDots(name.segs))

\* the name an entry has in the archive written: file() and directory()
\* sanitize it, and so does the zip module; symlink() queues it as given
entryName(entry, format) ==
    IF entry.type = "symlink" /\ format = "tar" THEN entry.name
    ELSE sanitizePath(entry.name)

\* archive.on('error'): abort (which ends the stream) and set the exit code
onArchiverError(st) ==
    [st EXCEPT !.archive.aborted = TRUE,
               !.archive.ended = TRUE,
               !.process.exitCode = 1]

\* archive.directory / file / symlink: a closed queue emits 'error' instead
enqueue(st, entries) ==
    IF entries = << >> THEN st
    ELSE IF st.archive.aborted \/ st.archive.finalize # "none" THEN onArchiverError(st)
    ELSE [st EXCEPT !.archive.queue = @ \o entries]

\* files.forEach: the working directory's package.json is left out
fileEntries(fileSet, base, bundleDest) ==
    LET kept == { f \in fileSet : f.segs # join(bundleDest, <<"package.json">>) }
        order == SetToSeq(kept)
    IN  [i \in DOMAIN order |->
            ArchEntry("file", order[i], join(base, order[i].segs), 0)]

\* the entries one path of extras gives
extrasEntries(path, from, base, kind) ==
    LET absolutePath == maybeMakeAbsolute(path, base)
        branch == extrasBranch(kind, looksGlobbish(path))
        globFiles == SetToSeq({ f \in ArchGlobFiles :
                                  GlobMatch(f, maybeMakeAbsolute(path, base)) })
    IN  CASE branch = "directory" ->
               <<ArchEntry("directory", path, absolutePath, from)>>
          [] branch = "file" ->
               <<ArchEntry("file", path, absolutePath, from)>>
          [] branch = "symlink" ->
               <<ArchEntry("symlink", PathString(absolutePath, FALSE),
                           relative(dirname(absolutePath), realpath(absolutePath)),
                           from)>>
          [] branch = "glob" ->
               [i \in DOMAIN globFiles |->
                   ArchEntry("file", RelString(relative(base, globFiles[i])),
                             globFiles[i], from)]
          [] OTHER -> << >>

\* a promise that finalize's return resolves
settleOnFinalize(promise, event, listening) ==
    IF event \in {"finalize", "close"} /\ listening THEN "resolved" ELSE promise

\* the promise archiveFiles awaits last: resolve is the output's close listener
settle(promise, event, listening) ==
    IF event = "close" /\ listening THEN "resolved" ELSE promise

ArchState == [archive |-> archive, process |-> process]

\* the synchronous start: the archiver, the output stream under its name, the
\* pipe, the bundle directory and the traced files
ArchiveBegin ==
    /\ archCall.pc = "begin"
    /\ LET bundleDest == relative(wsRoot, workDir)
           st == enqueue(ArchState,
                         <<ArchEntry("directory", RelString(bundleDest),
                                     ArchBundleSource, 0)>>
                         \o fileEntries(files, wsRoot, bundleDest))
       IN  /\ archive' = st.archive
           /\ process' = st.process
    /\ output' = [output EXCEPT
                    !.exists = TRUE,
                    !.name = archiveFileName(archCall.format, archCall.compressionLevel)]
    /\ archCall' = [archCall EXCEPT !.pc = "extras"]
    /\ UNCHANGED <<pc, disk, workDir, wsCur, wsRoot, cache, fsReads, nextObj,
                   traceResult, files, extraModules, extras, modulePaths, tasks,
                   descendLog, includeLog, warnings, fsKinds, extrasOrder,
                   loadVars, runVars, startVars, throttleVars, depVars>>

\* one turn of the loop over extras
ExtrasStep ==
    /\ archCall.pc = "extras"
    /\ archCall.idx <= Len(extrasOrder)
    /\ ~process.crashed
    /\ LET path == extrasOrder[archCall.idx]
           branch == extrasBranch(fsKinds[path], looksGlobbish(path))
           st == enqueue(ArchState,
                         extrasEntries(path, archCall.idx, wsRoot, fsKinds[path]))
       IN  /\ archive' = st.archive
           /\ process' = st.process
           /\ archCall' = [archCall EXCEPT
                             !.idx = @ + 1,
                             !.warnings = IF branch \in {"ignored", "doesnt exist"}
                                          THEN Append(@, path) ELSE @]
    /\ UNCHANGED <<pc, disk, workDir, wsCur, wsRoot, cache, fsReads, nextObj,
                   traceResult, files, extraModules, extras, modulePaths, tasks,
                   descendLog, includeLog, warnings, output, fsKinds, extrasOrder,
                   loadVars, runVars, startVars, throttleVars, depVars>>

\* await archive.finalize(), called inside the promise's executor: on an
\* aborted archive it emits 'error' and rejects, and the rejection of the
\* executor is handled by nobody
FinalizeCall ==
    /\ archCall.pc = "extras"
    /\ archCall.idx = Len(extrasOrder) + 1
    /\ ~process.crashed
    /\ IF archive.aborted
       THEN LET st == onArchiverError(ArchState)
            IN  \E crash \in BOOLEAN :
                  /\ archive' = [st.archive EXCEPT !.finalize = "rejected"]
                  /\ process' = [st.process EXCEPT !.crashed = crash]
       ELSE /\ archive' = [archive EXCEPT !.finalize = "pending"]
            /\ process' = process
    /\ archCall' = [archCall EXCEPT
                      !.pc = "awaiting",
                      !.promise = settle(@, "finalize called", output.onClose)]
    /\ UNCHANGED <<pc, disk, workDir, wsCur, wsRoot, cache, fsReads, nextObj,
                   traceResult, files, extraModules, extras, modulePaths, tasks,
                   descendLog, includeLog, warnings, output, fsKinds, extrasOrder,
                   loadVars, runVars, startVars, throttleVars, depVars>>

\* the archiver writes one queued entry into the output
ProcessEntry ==
    /\ archCall.pc \in {"extras", "awaiting"}
    /\ ~archive.aborted
    /\ archive.written < Len(archive.queue)
    /\ ~process.crashed
    /\ archive' = [archive EXCEPT !.written = @ + 1]
    /\ output' = [output EXCEPT !.data = TRUE]
    /\ UNCHANGED <<pc, disk, workDir, wsCur, wsRoot, cache, fsReads, nextObj,
                   traceResult, files, extraModules, extras, modulePaths, tasks,
                   descendLog, includeLog, warnings, archCall, process, fsKinds,
                   extrasOrder, loadVars, runVars, startVars, throttleVars, depVars>>

\* the archiver emits 'error' while it writes an entry; a finalize() already
\* pending rejects when the error is the module's and stays pending otherwise
ArchiverError ==
    /\ archCall.pc \in {"extras", "awaiting"}
    /\ ~archive.aborted
    /\ archive.finalize \in {"none", "pending"}
    /\ archive.written < Len(archive.queue)
    /\ ~process.crashed
    /\ LET st == onArchiverError(ArchState)
       IN  \E rejects \in BOOLEAN : \E crash \in BOOLEAN :
             /\ (rejects \/ crash) => archive.finalize = "pending"
             /\ crash => rejects
             /\ archive' = [st.archive EXCEPT
                              !.finalize = IF rejects THEN "rejected" ELSE @]
             /\ process' = [st.process EXCEPT !.crashed = crash]
    /\ UNCHANGED <<pc, disk, workDir, wsCur, wsRoot, cache, fsReads, nextObj,
                   traceResult, files, extraModules, extras, modulePaths, tasks,
                   descendLog, includeLog, warnings, archCall, output, fsKinds,
                   extrasOrder, loadVars, runVars, startVars, throttleVars, depVars>>

\* the module ends: finalize() resolves, and the executor attaches resolve as
\* the output's close listener
FinalizeEnd ==
    /\ archCall.pc = "awaiting"
    /\ archive.finalize = "pending"
    /\ ~archive.aborted
    /\ archive.written = Len(archive.queue)
    /\ ~process.crashed
    /\ archive' = [archive EXCEPT !.finalize = "resolved", !.ended = TRUE]
    /\ output' = [output EXCEPT !.onClose = TRUE]
    /\ archCall' = [archCall EXCEPT !.promise = settle(@, "finalize", TRUE)]
    /\ UNCHANGED <<pc, disk, workDir, wsCur, wsRoot, cache, fsReads, nextObj,
                   traceResult, files, extraModules, extras, modulePaths, tasks,
                   descendLog, includeLog, warnings, process, fsKinds, extrasOrder,
                   loadVars, runVars, startVars, throttleVars, depVars>>

\* the output stream, ended by the pipe, closes its file
OutputClose ==
    /\ output.exists
    /\ archive.ended
    /\ ~output.closed
    /\ ~process.crashed
    /\ output' = [output EXCEPT !.closed = TRUE]
    /\ LET promise == settle(archCall.promise, "close", output.onClose)
       IN  archCall' = [archCall EXCEPT
                          !.promise = promise,
                          !.pc = IF promise = "resolved" THEN "returned" ELSE @]
    /\ UNCHANGED <<pc, disk, workDir, wsCur, wsRoot, cache, fsReads, nextObj,
                   traceResult, files, extraModules, extras, modulePaths, tasks,
                   descendLog, includeLog, warnings, archive, process, fsKinds,
                   extrasOrder, loadVars, runVars, startVars, throttleVars, depVars>>

\* the orders a set of extras is iterated in: no path twice
ExtrasOrders ==
    { s \in SeqsUpTo(ArchExtras, MaxArchExtras) :
        \A i, j \in DOMAIN s : s[i] = s[j] => i = j }

InitArchive ==
    /\ pc = "archiveFiles"
    /\ disk = << >>
    /\ workDir = ArchWorkDir
    /\ wsCur = PathString(ArchWsRoot, TRUE)
    /\ wsRoot = ArchWsRoot
    /\ cache = << >>
    /\ fsReads = << >>
    /\ nextObj = 1
    /\ traceResult = << >>
    /\ files \in {{}, ArchFiles}
    /\ extraModules = << >>
    /\ extrasOrder \in ExtrasOrders
    /\ extras = { extrasOrder[i] : i \in DOMAIN extrasOrder }
    /\ fsKinds \in [extras -> FsKinds]
    /\ modulePaths = {}
    /\ tasks = << >>
    /\ descendLog = << >>
    /\ includeLog = << >>
    /\ warnings = {}
    /\ \E f \in ArchFormats :
         archCall = [pc |-> "begin", idx |-> 1, promise |-> "pending",
                     warnings |-> << >>, format |-> f.format,
                     compressionLevel |-> f.compressionLevel]
    /\ archive = [queue |-> << >>, written |-> 0, aborted |-> FALSE,
                  ended |-> FALSE, finalize |-> "none"]
    /\ output = [exists |-> FALSE, name |-> << >>, data |-> FALSE,
                 closed |-> FALSE, onClose |-> FALSE]
    /\ process = [exitCode |-> 0, crashed |-> FALSE]
    /\ LoadIdle
    /\ RunIdle
    /\ StartIdle
    /\ ThrottleIdle
    /\ DepIdle

NextArchive ==
    \/ ArchiveBegin
    \/ ExtrasStep
    \/ FinalizeCall
    \/ ProcessEntry
    \/ ArchiverError
    \/ FinalizeEnd
    \/ OutputClose

SpecArchive == InitArchive /\ [][NextArchive]_vars

\* C14: the promise of archiveFiles is resolved only when finalize() has
\* resolved and the output has closed after it, and the step that resolves it
\* is the output's close; neither queueing the entries nor finalize's return
\* resolves it.
C14_ResolvesOnCloseAfterFinalize ==
    /\ [](archCall.promise = "resolved" =>
            /\ archive.finalize = "resolved"
            /\ output.closed
            /\ archCall.idx = Len(extrasOrder) + 1)
    /\ [][archCall'.promise # archCall.promise =>
            /\ archive.finalize = "resolved"
            /\ ~output.closed
            /\ output'.closed]_vars

\* C14's case: a call with entries from extras has resolved
C14_Witness ==
    /\ archCall.promise = "resolved"
    /\ \E i \in DOMAIN archive.queue : archive.queue[i].from > 0

\* archiveFiles has nothing left to do: finalize() was called, and the output
\* has closed or the process has ended
ArchiveQuiet ==
    /\ archCall.pc \in {"awaiting", "returned"}
    /\ output.closed \/ process.crashed

\* C15 (as claimed): once the archiver emitted 'error' or finalize() failed,
\* the archive is aborted, the exit code is non-zero and the promise of
\* archiveFiles is rejected: not resolved, and not left pending.
C15_ErrorRejects ==
    (ArchiveQuiet /\ (archive.aborted \/ archive.finalize = "rejected")) =>
        /\ archive.aborted
        /\ process.exitCode # 0
        /\ archCall.promise = "rejected"

\* every entry of the call is queued: the loop over extras is past its end
AllEnqueued ==
    /\ archCall.pc # "begin"
    /\ archCall.idx = Len(extrasOrder) + 1

\* C16 (as claimed): the file of the final name, pkg.<format>[.gz], exists
\* and holds archive data only once every entry has been queued.
C16_FinalNameAfterEnqueue ==
    (/\ output.exists
     /\ output.name = archiveFileName(archCall.format, archCall.compressionLevel)
     /\ output.data) => AllEnqueued

\* the positions of extras whose path is missing on disk and has no wildcard
MissingPlain ==
    { i \in DOMAIN extrasOrder :
        fsKinds[extrasOrder[i]] = "missing" /\ ~looksGlobbish(extrasOrder[i]) }

\* the positions of extras the loop has been through
LoopedOver ==
    IF archCall.pc = "begin" THEN {}
    ELSE { i \in DOMAIN extrasOrder : i < archCall.idx }

\* the positions of extras an entry of the queue comes from
QueuedFrom == { archive.queue[k].from : k \in DOMAIN archive.queue } \ {0}

\* archiveFiles can take a step of its own, or its archiver or output can
ArchiveCanStep ==
    \/ archCall.pc \in {"begin", "extras"}
    \/ archCall.pc = "awaiting" /\ archive.finalize = "pending"
    \/ output.exists /\ archive.ended /\ ~output.closed

\* C17: a path of extras that is missing on disk and has no wildcard is
\* skipped with a warning and adds no entry; the loop goes on to the next
\* path, the later paths are queued in their order, and without an archiver
\* error the call goes on until its promise is resolved.
C17_MissingExtraSkipped ==
    /\ [](/\ \A i \in MissingPlain \cap LoopedOver :
               /\ i \notin QueuedFrom
               /\ \E w \in DOMAIN archCall.warnings :
                    archCall.warnings[w] = extrasOrder[i]
          /\ \A k, l \in DOMAIN archive.queue :
               k < l => archive.queue[k].from <= archive.queue[l].from
          /\ ~archive.aborted =>
               /\ \A i \in LoopedOver \ MissingPlain :
                    fsKinds[extrasOrder[i]] \in {"directory", "file", "symlink"}
                        => i \in QueuedFrom
               /\ archCall.promise = "resolved" \/ ArchiveCanStep)
    /\ [][(archCall.pc = "extras" /\ archCall.idx \in MissingPlain
           /\ archCall'.idx # archCall.idx) =>
            /\ archCall'.idx = archCall.idx + 1
            /\ archCall'.pc = "extras"
            /\ archCall'.promise = archCall.promise
            /\ archCall'.warnings = Append(archCall.warnings, extrasOrder[archCall.idx])
            /\ archive' = archive
            /\ process' = process]_vars

\* C17's case: a call whose first path was missing has queued its second
\* path and has resolved
C17_Witness ==
    /\ 1 \in MissingPlain
    /\ 2 \in QueuedFrom
    /\ archCall.promise = "resolved"
    /\ archCall.pc = "returned"

\* C18 (as claimed): every entry added to the archive (the bundle directory,
\* the traced files, and the extras as file, directory, symlink or wildcard
\* match) has a name relative to the archive root, never an absolute one.
C18_EntryNamesRelative ==
    \A k \in DOMAIN archive.queue :
        ~isAbsolute(entryName(archive.queue[k], archCall.format))

(***************************************************************************)
(* bundle's start: the configuration and its checks (part_006, bundle.ts). *)
(***************************************************************************)
\* the most entry points in an array
MaxEntries == 2

\* entry point paths: the directory, and the file name split at its dots
\* (".env" is <<"", "env">>)
EntryPaths ==
    { [dir |-> <<"src">>, parts |-> <<"index", "ts">>],
      [dir |-> <<"src">>, parts |-> <<"index", "worker", "ts">>],
      [dir |-> <<"src">>, parts |-> <<"", "env">>] }

\* basename(p).split('.').at(0)
firstPart(p) == <<Head(p.parts)>>

\* basename(p, extname(p)): a leading dot starts no extension
stem(p) ==
    IF Len(p.parts) >= 2 /\ ~(Len(p.parts) = 2 /\ p.parts[1] = "")
    THEN SubSeq(p.parts, 1, Len(p.parts) - 1)
    ELSE p.parts

\* Object.fromEntries: a later pair replaces an earlier one of the same key
RECURSIVE fromEntries(_)
fromEntries(pairs) ==
    IF pairs = << >> THEN << >>
    ELSE LET init == fromEntries(SubSeq(pairs, 1, Len(pairs) - 1))
             last == pairs[Len(pairs)]
         IN  [k \in DOMAIN init \cup {last[1]} |->
                 IF k = last[1] THEN last[2] ELSE init[k]]

\* {...a, ...b}
spread(a, b) ==
    [k \in DOMAIN a \cup DOMAIN b |-> IF k \in DOMAIN b THEN b[k] ELSE a[k]]

\* the forms entryPoints is given in: nothing, a string, an array, a record;
\* the value is a sequence of paths, each under its key in a record
Given(key, path) == [key |-> key, path |-> path]

EntryForms ==
    { [type |-> "undefined", value |-> << >>] }
    \cup { [type |-> "string", value |-> <<Given(<< >>, p)>>] : p \in EntryPaths }
    \cup { [type |-> "array", value |-> [i \in DOMAIN s |-> Given(<< >>, s[i])]] :
             s \in SeqsUpTo(EntryPaths, MaxEntries) }
    \cup { [type |-> "record", value |-> r] :
             r \in { << >>,
                     <<Given(<<"main">>, CHOOSE p \in EntryPaths : p.parts[1] # "")>> } }

\* parseEntryPoints(entryPoints): the record of entry points, or a TypeError
parseEntryPoints(entryPoints) ==
    LET given == entryPoints.value
    IN  CASE entryPoints.type = "string" ->
               IF firstPart(given[1].path) = <<"">>
               THEN [threw |-> TRUE, value |-> << >>]
               ELSE [threw |-> FALSE,
                     value |-> fromEntries(<< <<firstPart(given[1].path), given[1].path>> >>)]
          [] entryPoints.type = "array" ->
               IF Len(given) = 1
               THEN [threw |-> FALSE,
                     value |-> fromEntries(<< <<stem(given[1].path), given[1].path>> >>)]
               ELSE [threw |-> FALSE,
                     value |-> fromEntries([i \in DOMAIN given |->
                                              <<firstPart(given[i].path), given[i].path>>])]
          [] OTHER ->
               [threw |-> FALSE,
                value |-> fromEntries([i \in DOMAIN given |->
                                         <<given[i].key, given[i].path>>])]

\* outDir as options or the config file give it: the key absent, undefined,
\* the empty string, or a directory
Absent == "<absent>"

Undefined == "<undefined>"

OutDirs == {Absent, Undefined, "", "dist"}

\* resolvedConfig: a key of options, whatever its value, replaces the config
\* file's; the entry points of both are merged
resolveConfig(cfg) ==
    LET fromFile == parseEntryPoints(cfg.fileEntryPoints)
        fromOptions == parseEntryPoints(cfg.optionsEntryPoints)
    IN  [threw |-> fromFile.threw \/ fromOptions.threw,
         entryPoints |-> spread(fromFile.value, fromOptions.value),
         outDir |-> IF cfg.optionsOutDir # Absent THEN cfg.optionsOutDir
                    ELSE cfg.fileOutDir]

\* !resolvedConfig.outDir
falsy(v) == v \in {Absent, Undefined, ""}

\* a check that lets a missing outDir pass
checkInputsNoOutDir(resolved) ==
    IF resolved.threw THEN "Bad entrypoint name"
    ELSE IF DOMAIN resolved.entryPoints = {} THEN "No entryPoints provided"
    ELSE "none"

\* the checks before any work: the TypeError thrown, or none
checkInputs(resolved) ==
    IF resolved.threw THEN "Bad entrypoint name"
    ELSE IF DOMAIN resolved.entryPoints = {} THEN "No entryPoints provided"
    ELSE IF falsy(resolved.outDir) THEN "No outDir"
    ELSE "none"

\* the operations that do the bundle's work
Work ==
    {"mkdir", "build", "findWorkspaceRoot", "traceFiles",
     "getDependencyPathsFromModule", "writeFile", "archiveFiles", "cleanup"}

\* the steps of bundle after its checks, in order, with the operation each
\* invokes
StartSteps ==
    <<"mkdir", "build", "findWorkspaceRoot", "traceFiles",
      "getDependencyPathsFromModule", "writeFile", "archiveFiles", "cleanup">>

\* import of the config file, and the call of a config function with the
\* working directory's manifest
BundleConfig ==
    /\ pc = "start"
    /\ effects' = effects
                  \o (IF config.configFile # "none" THEN <<"import">> ELSE << >>)
                  \o (IF config.configFile = "function"
                      THEN <<"loadPackageJson", "configFunction">> ELSE << >>)
    /\ pc' = "config"
    /\ UNCHANGED <<disk, workDir, wsCur, wsRoot, cache, fsReads, nextObj,
                   traceResult, files, extraModules, extras, modulePaths, tasks,
                   descendLog, includeLog, warnings, config,
                   loadVars, runVars, archiveVars, throttleVars, depVars>>

\* resolvedConfig and the two checks
BundleCheck ==
    /\ pc = "config"
    /\ LET thrown == checkInputs(resolveConfig(config))
       IN  /\ config' = [config EXCEPT !.thrown = thrown]
           /\ pc' = IF thrown = "none" THEN "work" ELSE "failed"
    /\ UNCHANGED <<disk, workDir, wsCur, wsRoot, cache, fsReads, nextObj,
                   traceResult, files, extraModules, extras, modulePaths, tasks,
                   descendLog, includeLog, warnings, effects,
                   loadVars, runVars, archiveVars, throttleVars, depVars>>

\* the operations of one run after its checks: the traversal is entered only
\* when there are extra modules
workSteps(mods) ==
    SelectSeq(StartSteps, LAMBDA op : op # "getDependencyPathsFromModule" \/ mods # << >>)

\* the next operation of the bundle's work
BundleWork ==
    /\ pc = "work"
    /\ LET steps == workSteps(extraModules)
           done == Len(SelectSeq(effects, LAMBDA e : e \in Work))
       IN  /\ done < Len(steps)
           /\ effects' = Append(effects, steps[done + 1])
           /\ pc' = IF done + 1 = Len(steps) THEN "returned" ELSE "work"
    /\ UNCHANGED <<disk, workDir, wsCur, wsRoot, cache, fsReads, nextObj,
                   traceResult, files, extraModules, extras, modulePaths, tasks,
                   descendLog, includeLog, warnings, config,
                   loadVars, runVars, archiveVars, throttleVars, depVars>>

\* the configurations of a run
Configs ==
    { c \in [configFile : {"none", "object", "function"},
             fileEntryPoints : EntryForms,
             fileOutDir : OutDirs,
             optionsEntryPoints : EntryForms,
             optionsOutDir : OutDirs,
             thrown : {"none"}] :
        c.configFile = "none" =>
            /\ c.fileEntryPoints.type = "undefined"
            /\ c.fileOutDir = Absent }

InitStart ==
    /\ pc = "start"
    /\ disk = << >>
    /\ workDir = << >>
    /\ wsCur = PathString(<< >>, TRUE)
    /\ wsRoot = Pending
    /\ cache = << >>
    /\ fsReads = << >>
    /\ nextObj = 1
    /\ traceResult = << >>
    /\ files = {}
    /\ extraModules \in {<< >>, <<"b">>}
    /\ extras = {}
    /\ modulePaths = {}
    /\ tasks = << >>
    /\ descendLog = << >>
    /\ includeLog = << >>
    /\ warnings = {}
    /\ config \in Configs
    /\ effects = << >>
    /\ LoadIdle
    /\ RunIdle
    /\ ArchiveIdle
    /\ ThrottleIdle
    /\ DepIdle

NextStart ==
    \/ BundleConfig
    \/ BundleCheck
    \/ BundleWork

SpecStart == InitStart /\ [][NextStart]_vars

\* the run has no entry point, or no output directory
NoInputs ==
    LET resolved == resolveConfig(config)
    IN  ~resolved.threw /\ (DOMAIN resolved.entryPoints = {} \/ falsy(resolved.outDir))

\* C19: a run without entry points or without an output directory fails at
\* its checks with the TypeError of the missing input, and no work has been
\* invoked before or is invoked after: no directory creation, build,
\* findWorkspaceRoot, traceFiles, getDependencyPathsFromModule, file write or
\* archiveFiles.
C19_FailsBeforeAnyWork ==
    /\ [](NoInputs =>
            /\ \A i \in DOMAIN effects : effects[i] \notin Work
            /\ pc \in {"start", "config", "failed"}
            /\ pc = "failed" => config.thrown \in {"No entryPoints provided", "No outDir"})
    /\ [][pc = "failed" => effects' = effects]_vars

\* C19's case: a run with an entry point and no output directory has failed
C19_Witness ==
    /\ pc = "failed"
    /\ config.thrown = "No outDir"
    /\ DOMAIN resolveConfig(config).entryPoints # {}
    /\ config.optionsOutDir = Undefined
    /\ config.fileOutDir = "dist"

(***************************************************************************)
(* basicThrottle (src/lib/logger.ts), as archiveFiles wraps its progress   *)
(* report in it.                                                           *)
(***************************************************************************)
\* the delay archiveFiles passes, in milliseconds
ThrottleDelay == 1000

\* the most events in one run, and the time a run lasts
MaxEvents == 4

MaxClock == 3000

\* the amounts of time that pass between two steps
TimeSteps == {400, 600}

\* a throttle that lets every event through
basicThrottleOpen(th, now, delay) ==
    [throttle |-> [callable |-> FALSE, timers |-> th.timers \cup {now + delay}],
     ran |-> TRUE]

\* the function basicThrottle returns, called at time now: the closure after
\* the call, and whether the callback ran
basicThrottle(th, now, delay) ==
    IF th.callable
    THEN [throttle |-> [callable |-> FALSE, timers |-> th.timers \cup {now + delay}],
          ran |-> TRUE]
    ELSE [throttle |-> th, ran |-> FALSE]

\* an event arrives: the throttled function is called
ThrottledCall ==
    /\ pc = "throttle"
    /\ Len(reports) < MaxEvents
    /\ LET r == basicThrottle(throttle, clock, ThrottleDelay)
       IN  /\ throttle' = r.throttle
           /\ reports' = Append(reports, [at |-> clock, ran |-> r.ran])
    /\ UNCHANGED <<pc, disk, workDir, wsCur, wsRoot, cache, fsReads, nextObj,
                   traceResult, files, extraModules, extras, modulePaths, tasks,
                   descendLog, includeLog, warnings, clock,
                   loadVars, runVars, archiveVars, startVars, depVars>>

\* a timer may fire once its time has come, never before
TimerFire ==
    /\ pc = "throttle"
    /\ \E t \in throttle.timers :
         /\ t <= clock
         /\ throttle' = [callable |-> TRUE, timers |-> throttle.timers \ {t}]
    /\ UNCHANGED <<pc, disk, workDir, wsCur, wsRoot, cache, fsReads, nextObj,
                   traceResult, files, extraModules, extras, modulePaths, tasks,
                   descendLog, includeLog, warnings, clock, reports,
                   loadVars, runVars, archiveVars, startVars, depVars>>

\* time passes
TimePasses ==
    /\ pc = "throttle"
    /\ \E d \in TimeSteps :
         /\ clock + d <= MaxClock
         /\ clock' = clock + d
    /\ UNCHANGED <<pc, disk, workDir, wsCur, wsRoot, cache, fsReads, nextObj,
                   traceResult, files, extraModules, extras, modulePaths, tasks,
                   descendLog, includeLog, warnings, throttle, reports,
                   loadVars, runVars, archiveVars, startVars, depVars>>

InitThrottle ==
    /\ pc = "throttle"
    /\ disk = << >>
    /\ workDir = << >>
    /\ wsCur = PathString(<< >>, TRUE)
    /\ wsRoot = Pending
    /\ cache = << >>
    /\ fsReads = << >>
    /\ nextObj = 1
    /\ traceResult = << >>
    /\ files = {}
    /\ extraModules = << >>
    /\ extras = {}
    /\ modulePaths = {}
    /\ tasks = << >>
    /\ descendLog = << >>
    /\ includeLog = << >>
    /\ warnings = {}
    /\ clock = 0
    /\ throttle = [callable |-> TRUE, timers |-> {}]
    /\ reports = << >>
    /\ LoadIdle
    /\ RunIdle
    /\ ArchiveIdle
    /\ StartIdle
    /\ DepIdle

NextThrottle ==
    \/ ThrottledCall
    \/ TimerFire
    \/ TimePasses

SpecThrottle == InitThrottle /\ [][NextThrottle]_vars

\* the events whose callback ran
Ran == { i \in DOMAIN reports : reports[i].ran }

\* C20: once the wrapped callback has run it does not run again before the
\* delay has elapsed; the first event is always reported; an event inside
\* the window of an earlier run is dropped, and stays dropped.
C20_ThrottleWindow ==
    /\ [](/\ \A i, j \in Ran : i < j => reports[j].at >= reports[i].at + ThrottleDelay
          /\ reports # << >> => 1 \in Ran
          /\ \A j \in DOMAIN reports :
               (\E i \in Ran : i < j /\ reports[j].at < reports[i].at + ThrottleDelay)
                   => j \notin Ran
          /\ Cardinality(throttle.timers) <= 1)
    /\ [][\A i \in DOMAIN reports : reports'[i] = reports[i]]_vars

\* C20's case: an event was dropped inside the window and a later one ran
C20_Witness ==
    \E i, j, k \in DOMAIN reports :
        /\ i < j /\ j < k
        /\ i \in Ran /\ j \notin Ran /\ k \in Ran
        /\ reports[j].at > reports[i].at

(***************************************************************************)
(* What a descended module includes.                                       *)
(***************************************************************************)
\* the calls that are past their includes
PastIncludes == { id \in Descended : tasks[id].pc \in {"children", "done"} }

\* the paths call id handed to includeCallback, relative to the workspace root
IncludedBy(id) ==
    { includeLog[k].path.segs : k \in { n \in DOMAIN includeLog : includeLog[n].task = id } }

\* the main file a package's manifest declares: the file its name resolves to
MainOf(root) ==
    LET i == CHOOSE p \in Installed : p.real = root
    IN  root \o i.entry \o <<"index.js">>

\* file is included by call id: it, or a directory above it, was handed over
Covers(id, file) ==
    \E p \in IncludedBy(id) : IsPrefix(p, relative(wsRoot, file))

\* C21 (as claimed): every call that passed shouldDescend has included the
\* module's own package.json and its main file, also when the manifest has a
\* files field that lists neither.
C21_ManifestAndMainIncluded ==
    \A id \in PastIncludes :
        /\ Covers(id, Append(tasks[id].root, "package.json"))
        /\ Covers(id, MainOf(tasks[id].root))

(***************************************************************************)
(* The files field: runs over manifests with any list of patterns.         *)
(***************************************************************************)
\* the most patterns in a files field
MaxGlobs == 2

\* the patterns a files field may list
GlobUniverse == { <<"index.js">>, <<"lib", "*">>, <<"*">> }

\* the manifests of the packages: b with a files field of any patterns (or
\* without one), the others without, none with dependencies
FilesManifests ==
    { [r \in PkgRoots |->
          IF r = PkgB THEN PkgManifest(hasFiles, globs, << >>)
          ELSE PkgManifest(FALSE, << >>, << >>)] :
        hasFiles \in BOOLEAN, globs \in SeqsUpTo(GlobUniverse, MaxGlobs) }

InitFiles ==
    /\ pc = "root"
    /\ workDir = BundleWorkDir
    /\ extraModules \in SeqsUpTo(ExtraUniverse, MaxExtra)
    /\ \E layout \in BundleLayouts : \E m \in FilesManifests :
         /\ m[PkgB].hasFiles \/ m[PkgB].files = << >>
         /\ disk = layout @@ m
    /\ wsCur = PathString(workDir, TRUE)
    /\ wsRoot = Pending
    /\ cache = << >>
    /\ fsReads = << >>
    /\ nextObj = 1
    /\ traceResult \in BundleTraces
    /\ files = {}
    /\ extras = {}
    /\ modulePaths = {}
    /\ tasks = << >>
    /\ descendLog = << >>
    /\ includeLog = << >>
    /\ warnings = {}
    /\ ExtIdle

NextFiles ==
    \/ FindWorkspaceRootStep
    \/ TraceFilesStep
    \/ \E id \in CallIds : \E i \in 1..(MaxDeps + MaxExtra) : Resolve(id, i)
    \/ \E id \in DOMAIN tasks : LoadManifest(id)
    \/ \E id \in DOMAIN tasks : Glob(id)
    \/ BundleManifestStep

SpecFiles == InitFiles /\ [][NextFiles]_vars

\* how often call id handed path p (relative to the workspace root) to
\* includeCallback
TimesIncluded(id, p) ==
    Cardinality({ k \in DOMAIN includeLog :
                    includeLog[k].task = id /\ includeLog[k].path.segs = p })

\* the alias of call id's module, relative to the workspace root
AliasOf(id) == <<"node_modules">> \o NameSegs(tasks[id].name)

\* the patterns of the files field of call id's module that match file
MatchingPatterns(id, file) ==
    LET manifest == ManifestAt(tasks[id].root)
    IN  { i \in DOMAIN manifest.files :
            GlobMatch(file, manifest.files[i]) /\ ~IsDts(file) }

\* the files and directories of call id's module, relative to the workspace root
InModule(id) ==
    { relative(wsRoot, join(tasks[id].root, f)) :
        f \in PkgFiles(tasks[id].root) \cup PkgDirs(tasks[id].root) }

\* C22 (as claimed): with a files field every file the patterns match is
\* handed to includeCallback exactly once and no .d.ts file ever is; without
\* one the module root is handed over once.
C22_OncePerMatchedFile ==
    \A id \in PastIncludes :
        LET root == tasks[id].root
            manifest == ManifestAt(root)
        IN  IF manifest.hasFiles
            THEN \A f \in PkgFiles(root) \cup PkgDirs(root) :
                    LET p == relative(wsRoot, join(root, f))
                    IN  /\ MatchingPatterns(id, f) # {} => TimesIncluded(id, p) = 1
                        /\ IsDts(f) => TimesIncluded(id, p) = 0
            ELSE TimesIncluded(id, relative(wsRoot, root)) = 1

\* C22: with a files field every file or directory of the module is handed
\* to includeCallback once for each pattern of the field that matches it and
\* is no .d.ts file (so not at all when none does, and never a .d.ts file),
\* every path handed over is such a match or the alias, and extras holds it
\* unless the trace has it; without a files field the module root is handed
\* over once and nothing else but the alias.
C22_OncePerMatchingPattern ==
    \A id \in PastIncludes :
        LET root == tasks[id].root
            manifest == ManifestAt(root)
            rel(f) == relative(wsRoot, join(root, f))
        IN  /\ IncludedBy(id) \subseteq InModule(id) \cup {relative(wsRoot, root), AliasOf(id)}
            /\ \A p \in IncludedBy(id) : RelString(p) \in extras
            /\ IF manifest.hasFiles
               THEN /\ \A f \in PkgFiles(root) \cup PkgDirs(root) :
                         /\ rel(f) # AliasOf(id) =>
                              TimesIncluded(id, rel(f)) = Cardinality(MatchingPatterns(id, f))
                         /\ IsDts(f) => TimesIncluded(id, rel(f)) = 0
                    /\ relative(wsRoot, root) \notin IncludedBy(id)
               ELSE /\ TimesIncluded(id, relative(wsRoot, root)) = 1
                    /\ IncludedBy(id) \subseteq {relative(wsRoot, root), AliasOf(id)}

\* C22's case: a file matched by two patterns of a files field, next to a
\* .d.ts file that a pattern would match, in a run that went on
C22_Witness ==
    /\ pc = "archive"
    /\ \E id \in PastIncludes :
         /\ ManifestAt(tasks[id].root).hasFiles
         /\ \E f \in PkgFiles(tasks[id].root) :
              Cardinality(MatchingPatterns(id, f)) = 2
         /\ \E f \in PkgFiles(tasks[id].root) :
              /\ IsDts(f)
              /\ \E i \in DOMAIN ManifestAt(tasks[id].root).files :
                   GlobMatch(f, ManifestAt(tasks[id].root).files[i])
    /\ \E id \in PastIncludes : ~ManifestAt(tasks[id].root).hasFiles

(***************************************************************************)
(* Module roots: runs over disks with manifests inside a package.          *)
(***************************************************************************)
\* directories inside a package that are named after it and may hold a
\* package.json of their own
NestedDirs ==
    { PkgA \o <<"dist", "a">>, PkgB \o <<"b">>, PkgCore \o <<"dist", "core">> }

InitNested ==
    /\ pc = "root"
    /\ workDir = BundleWorkDir
    /\ extraModules \in SeqsUpTo(ExtraUniverse \cup {"@s/core"}, MaxExtra)
    /\ \E layout \in BundleLayouts : \E nested \in SUBSET NestedDirs :
         disk = layout @@ [r \in PkgRoots |-> PkgManifest(FALSE, << >>, << >>)]
                       @@ [d \in nested |-> PlainManifest]
    /\ wsCur = PathString(workDir, TRUE)
    /\ wsRoot = Pending
    /\ cache = << >>
    /\ fsReads = << >>
    /\ nextObj = 1
    /\ traceResult \in BundleTraces
    /\ files = {}
    /\ extras = {}
    /\ modulePaths = {}
    /\ tasks = << >>
    /\ descendLog = << >>
    /\ includeLog = << >>
    /\ warnings = {}
    /\ ExtIdle

NextNested ==
    \/ FindWorkspaceRootStep
    \/ TraceFilesStep
    \/ \E id \in CallIds : \E i \in 1..(MaxDeps + MaxExtra) : Resolve(id, i)
    \/ \E id \in DOMAIN tasks : LoadManifest(id)
    \/ BundleManifestStep
    \/ BundleFail

SpecNested == InitNested /\ [][NextNested]_vars

\* the entry file the name of call id resolved to
EntryFileOf(id) ==
    LET f == tasks[id]
        initialPaths == <<f.base, wsRoot>>
        resolvedFrom == IF f.parents = << >> THEN [kind |-> "none", file |-> << >>]
                        ELSE requireResolve(f.parents[Len(f.parents)], initialPaths)
        fromPkgDir == IF resolvedFrom.kind = "file"
                      THEN packageDirectory(resolvedFrom.file)
                      ELSE << >>
    IN  requireResolve(f.name, fromPkgDir \o initialPaths)

\* the directories on the upward path from the entry file's directory that
\* are named after the last segment of the name and hold a package.json
RootCandidates(id) ==
    LET segs == NameSegs(tasks[id].name)
    IN  { d \in Ancestors(dirname(EntryFileOf(id).file)) :
            /\ d # << >>
            /\ d[Len(d)] = segs[Len(segs)]
            /\ ManifestAt(d).exists }

\* C23 (as claimed): for a name that resolves to a file, resolveModuleRoot
\* answers the nearest directory on the upward path from the entry file's
\* directory that is named after the last segment of the name and holds a
\* package.json, and fails when there is none.
C23_NearestNamedAncestor ==
    \A id \in DOMAIN tasks :
        EntryFileOf(id).kind = "file" =>
            IF RootCandidates(id) = {}
            THEN tasks[id].pc = "rejected" /\ tasks[id].why = "error"
            ELSE /\ tasks[id].root \in RootCandidates(id)
                 /\ \A d \in RootCandidates(id) : Len(d) <= Len(tasks[id].root)

\* call id made the additional inclusion of the alias
\* <workspaceRoot>/node_modules/<name>
AliasIncluded(id) ==
    /\ AliasOf(id) \in IncludedBy(id)
    /\ AliasOf(id) # relative(wsRoot, tasks[id].root)

\* the module root is a directory installed in a node_modules directory
InNodeModules(root) == \E i \in 1..(Len(root) - 1) : root[i] = "node_modules"

\* C24 (as claimed): the alias is included exactly for the modules whose
\* root is not in a node_modules directory, those reached through a symlink;
\* a module installed in a node_modules directory gets no alias.
C24_AliasOnlyForSymlinked ==
    \A id \in PastIncludes : AliasIncluded(id) <=> ~InNodeModules(tasks[id].root)

(***************************************************************************)
(* The parents chain: runs with a package linked below the workspace root. *)
(***************************************************************************)
InitParents ==
    /\ pc = "root"
    /\ workDir = BundleWorkDir
    /\ extraModules \in SeqsUpTo({"p", "b"}, MaxExtra)
    /\ \E layout \in BundleLayouts : \E deps \in SubSeqs(<<"a", "b", "fs">>, MaxDeps) :
         disk = layout @@ [r \in PkgRoots |-> PkgManifest(FALSE, << >>, << >>)]
                       @@ (PkgP :> PkgManifest(FALSE, << >>, deps))
    /\ wsCur = PathString(workDir, TRUE)
    /\ wsRoot = Pending
    /\ cache = << >>
    /\ fsReads = << >>
    /\ nextObj = 1
    /\ traceResult \in BundleTraces
    /\ files = {}
    /\ extras = {}
    /\ modulePaths = {}
    /\ tasks = << >>
    /\ descendLog = << >>
    /\ includeLog = << >>
    /\ warnings = {}
    /\ ExtIdle

NextParents ==
    \/ FindWorkspaceRootStep
    \/ TraceFilesStep
    \/ \E id \in CallIds : \E i \in 1..(MaxDeps + MaxExtra) : Resolve(id, i)
    \/ \E id \in DOMAIN tasks : LoadManifest(id)
    \/ BundleManifestStep

SpecParents == InitParents /\ [][NextParents]_vars

\* what resolveModuleRoot answers to call id when the call is made with an
\* empty parents chain and nothing else changed
ResolutionWithoutParents(id) ==
    resolveModuleRoot(tasks[id].name, tasks[id].base, wsRoot, << >>)

\* C25 (as claimed): the parents chain does not change what a call resolves:
\* made with an empty chain, every call resolves the module root it resolved
\* with its own chain, and so makes the same shouldDescend and
\* includeCallback calls.
C25_ParentsOnlyDiagnostic ==
    \A id \in DOMAIN tasks : ResolutionOf(id) = ResolutionWithoutParents(id)

(***************************************************************************)
(* traceDependencies: the recursive walk over the manifests' dependencies  *)
(* with its circuit breaker, and flattenDeps.                              *)
(***************************************************************************)
\* the most names a dependencies record holds
MaxFxDeps == 2

\* the packages the manifests below startPath name, in one order
FxNames == <<"x", "y", "z">>

FxStart == <<"fx">>

\* where a package is installed: all are hoisted to startPath/node_modules
FxDir(name) == FxStart \o <<"node_modules", name>>

\* how a package is installed:
\*   "plain"   package.json can be required by its path
\*   "hidden"  an exports map that does not export ./package.json
\*   "inner"   as "hidden", with a further package.json next to the main file
\*   "missing" declared by a manifest, not installed
FxKinds == [ x : {"plain", "hidden", "inner"}, y : {"plain"}, z : {"plain", "missing"} ]

\* the directory of the main file of a package
FxMainDir(name) == FxDir(name) \o <<"dist">>

\* resolvePackageJson(name, base): the directory of the package.json found,
\* or a throw; node's lookup from any base below startPath reaches
\* startPath/node_modules
resolvePackageJson(name, base) ==
    LET kind == fixture.kinds[name] IN
    CASE kind = "missing" -> [threw |-> TRUE, dir |-> << >>]
      [] kind = "plain"   -> [threw |-> FALSE, dir |-> FxDir(name)]
      [] kind = "hidden"  -> [threw |-> FALSE, dir |-> FxDir(name)]
      [] kind = "inner"   -> [threw |-> FALSE, dir |-> FxMainDir(name)]

\* require(modulePackageJsonPath): the manifest in a directory; the one next
\* to a main file declares neither dependencies nor files
FxManifest(dir) ==
    IF \E n \in DOMAIN fixture.deps : dir = FxDir(n)
    THEN LET n == CHOOSE m \in DOMAIN fixture.deps : dir = FxDir(m) IN
         [dependencies |-> fixture.deps[n], files |-> TRUE]
    ELSE [dependencies |-> << >>, files |-> FALSE]

\* a RecursiveDependency without its deps
Dependency(name, path, hasFiles) ==
    [name |-> name, version |-> "*", path |-> path, files |-> hasFiles]

withDeps(dep, deps) ==
    [name |-> dep.name, version |-> dep.version, path |-> dep.path,
     files |-> dep.files, deps |-> deps]

RECURSIVE flattenDeps(_)
flattenDeps(initialChildren) ==
    IF initialChildren = << >> THEN << >>
    ELSE LET child == Head(initialChildren)
             childWithoutChildren == Dependency(child.name, child.path, child.files)
         IN  (IF Len(child.deps) > 0
              THEN <<childWithoutChildren>> \o flattenDeps(child.deps)
              ELSE <<childWithoutChildren>>)
             \o flattenDeps(Tail(initialChildren))

\* an activation of recursiveResolveDependencies(deps, basePath): the entries
\* mapped so far, and the entry its result becomes the deps of
Activation(deps, basePath, entry) ==
    [deps |-> deps, basePath |-> basePath, idx |-> 1, acc |-> << >>, entry |-> entry]

NoEntry == Dependency("", << >>, FALSE)

\* traceDependencies(initialDeps, startPath) is called
TraceDependenciesCall ==
    /\ pc = "deps"
    /\ traced.status = "idle"
    /\ traced' = [traced EXCEPT !.status = "running"]
    /\ frames' = << Activation(fixture.initialDeps, FxStart, NoEntry) >>
    /\ UNCHANGED <<pc, disk, workDir, wsCur, wsRoot, cache, fsReads, nextObj,
                   traceResult, files, extraModules, extras, modulePaths, tasks,
                   descendLog, includeLog, warnings, fixture, circuitBreaker,
                   loadVars, runVars, archiveVars, startVars, throttleVars>>

\* the map callback of recursiveResolveDependencies for the next entry
ResolveDependency ==
    /\ pc = "deps"
    /\ traced.status = "running"
    /\ LET top == frames[Len(frames)] IN
       /\ top.idx <= Len(top.deps)
       /\ LET name == top.deps[top.idx]
              modulePackageJsonPath == resolvePackageJson(name, top.basePath)
              nextPath == modulePackageJsonPath.dir
              packageJson == FxManifest(nextPath)
              entry == Dependency(name, nextPath, packageJson.files)
          IN  IF modulePackageJsonPath.threw
              THEN /\ traced' = [traced EXCEPT !.status = "rejected"]
                   /\ frames' = << >>
                   /\ UNCHANGED circuitBreaker
              ELSE IF nextPath \in circuitBreaker
              THEN /\ frames' = [frames EXCEPT ![Len(frames)] =
                          [top EXCEPT !.idx = top.idx + 1,
                                      !.acc = Append(top.acc, withDeps(entry, << >>))]]
                   /\ UNCHANGED <<circuitBreaker, traced>>
              ELSE /\ circuitBreaker' = circuitBreaker \cup {nextPath}
                   /\ traced' = [traced EXCEPT !.expanded = Append(traced.expanded, nextPath)]
                   /\ frames' = Append(frames, Activation(packageJson.dependencies, nextPath, entry))
    /\ UNCHANGED <<pc, disk, workDir, wsCur, wsRoot, cache, fsReads, nextObj,
                   traceResult, files, extraModules, extras, modulePaths, tasks,
                   descendLog, includeLog, warnings, fixture,
                   loadVars, runVars, archiveVars, startVars, throttleVars>>

\* an activation of recursiveResolveDependencies returns its array; the
\* outermost one's is flattened and resolves the promise
ReturnChildren ==
    /\ pc = "deps"
    /\ traced.status = "running"
    /\ LET top == frames[Len(frames)] IN
       /\ top.idx > Len(top.deps)
       /\ IF Len(frames) = 1
          THEN /\ traced' = [traced EXCEPT !.status = "resolved",
                                           !.result = flattenDeps(top.acc)]
               /\ frames' = << >>
          ELSE LET caller == frames[Len(frames) - 1] IN
               /\ frames' = [SubSeq(frames, 1, Len(frames) - 1) EXCEPT ![Len(frames) - 1] =
                      [caller EXCEPT !.idx = caller.idx + 1,
                                     !.acc = Append(caller.acc, withDeps(top.entry, top.acc))]]
               /\ UNCHANGED traced
    /\ UNCHANGED <<pc, disk, workDir, wsCur, wsRoot, cache, fsReads, nextObj,
                   traceResult, files, extraModules, extras, modulePaths, tasks,
                   descendLog, includeLog, warnings, fixture, circuitBreaker,
                   loadVars, runVars, archiveVars, startVars, throttleVars>>

InitDeps ==
    /\ pc = "deps"
    /\ disk = << >>
    /\ workDir = << >>
    /\ wsCur = PathString(<< >>, TRUE)
    /\ wsRoot = Pending
    /\ cache = << >>
    /\ fsReads = << >>
    /\ nextObj = 1
    /\ traceResult = << >>
    /\ files = {}
    /\ extraModules = << >>
    /\ extras = {}
    /\ modulePaths = {}
    /\ tasks = << >>
    /\ descendLog = << >>
    /\ includeLog = << >>
    /\ warnings = {}
    /\ \E kinds \in FxKinds : \E deps \in [ {"x", "y", "z"} -> SubSeqs(FxNames, MaxFxDeps) ] :
       \E initialDeps \in SubSeqs(FxNames, MaxFxDeps) :
         fixture = [kinds |-> kinds, deps |-> deps, initialDeps |-> initialDeps]
    /\ circuitBreaker = {}
    /\ frames = << >>
    /\ traced = [status |-> "idle", result |-> << >>, expanded |-> << >>]
    /\ LoadIdle
    /\ RunIdle
    /\ ArchiveIdle
    /\ StartIdle
    /\ ThrottleIdle

NextDeps ==
    \/ TraceDependenciesCall
    \/ ResolveDependency
    \/ ReturnChildren

SpecDeps == InitDeps /\ [][NextDeps]_vars

RECURSIVE FxClosure(_, _)
FxClosure(names, n) ==
    IF n = 0 THEN names
    ELSE FxClosure(names \cup UNION { { fixture.deps[m][k] : k \in 1..Len(fixture.deps[m]) } : m \in names }, n - 1)

\* the packages transitively reachable from the initial dependencies
FxReachable ==
    FxClosure({ fixture.initialDeps[k] : k \in 1..Len(fixture.initialDeps) }, Len(FxNames))

TraceSettled == pc = "deps" /\ traced.status \in {"resolved", "rejected"}

\* C26 (as claimed): once traceDependencies has run to its end, its promise
\* is resolved, the flat list holds an entry for every package reachable
\* from the initial dependencies, and no package directory was expanded more
\* than once.
C26_TraceResolvesComplete ==
    TraceSettled =>
        /\ traced.status = "resolved"
        /\ \A n \in FxReachable : \E i \in 1..Len(traced.result) : traced.result[i].name = n
        /\ \A i, j \in 1..Len(traced.expanded) :
               traced.expanded[i] = traced.expanded[j] => i = j

\* the packages reachable from the initial dependencies are all installed
\* and each resolves to its own manifest
FxAllOwnManifests ==
    \A n \in FxReachable : ~resolvePackageJson(n, FxStart).threw
                           /\ resolvePackageJson(n, FxStart).dir = FxDir(n)

\* no directory is expanded twice, and with every reachable package
\* resolving to its own manifest the run ends resolved and complete
C26_CompleteWhenAllResolve ==
    /\ pc = "deps" =>
         \A i, j \in 1..Len(traced.expanded) :
             traced.expanded[i] = traced.expanded[j] => i = j
    /\ (TraceSettled /\ FxAllOwnManifests) =>
         /\ traced.status = "resolved"
         /\ \A n \in FxReachable : \E i \in 1..Len(traced.result) :
                traced.result[i].path = FxDir(n)

(***************************************************************************)
(* What has happened when the promise of a call is resolved.               *)
(***************************************************************************)
\* the shouldDescend and includeCallback invocations made by call id and by
\* the calls made from within it
CallbacksOf(id) ==
    << SelectSeq(descendLog, LAMBDA e : IsPrefix(id, e.task)),
       SelectSeq(includeLog, LAMBDA e : IsPrefix(id, e.task)) >>

\* the calls made from within call id that have thrown
ThrownWithin(id) == { t \in DOMAIN tasks : IsPrefix(id, t) /\ tasks[t].pc = "rejected" }

SpecArchiveLive == SpecArchive /\ WF_vars(NextArchive)

\* C28 (as claimed): whenever the output stream has closed, the promise of
\* archiveFiles is eventually resolved.
C28_CloseLeadsToResolve ==
    (pc = "archiveFiles" /\ output.closed) ~> (archCall.promise = "resolved")

(***************************************************************************)
(* cliBundle: the loop over extraModules that takes local paths as well as *)
(* module names, then the manifest and the archive.                        *)
(***************************************************************************)
\* the entries of extraModules that are paths, with the segments
\* path.relative resolves them to from the working directory
LocalPaths == {"./assets", "/opt/data"}

LocalSegs(name, cwd) ==
    IF name = "./assets" THEN cwd \o <<"assets">> ELSE <<"opt", "data">>

\* name.startsWith('.') || name.startsWith('/')
startsWithDotOrSlash(name) == name \in LocalPaths

\* the loop body for a local path: extras.add(rel), then return, which ends
\* cliBundle: its promise resolves, nothing after the loop body runs
LocalPathStep(i) ==
    /\ CanStart(<< >>, i)
    /\ startsWithDotOrSlash(extraModules[i])
    /\ extras' = extras \cup
                   { RelString(relative(wsRoot, LocalSegs(extraModules[i], workDir))) }
    /\ pc' = "returned"
    /\ UNCHANGED <<disk, workDir, wsCur, wsRoot, cache, fsReads, nextObj, traceResult,
                   files, extraModules, modulePaths, tasks, descendLog, includeLog,
                   warnings>>
    /\ UNCHANGED extVars

\* the loop body for a module name
ModuleStep(id, i) ==
    /\ i \in 1..Len(Callees(id))
    /\ id = << >> => ~startsWithDotOrSlash(extraModules[i])
    /\ Resolve(id, i)

\* past the loop: the new manifest is written and archiveFiles is called
CliManifestStep ==
    /\ pc = "expand"
    /\ ExpansionFulfilled
    /\ pc' = "archive"
    /\ UNCHANGED <<disk, workDir, wsCur, wsRoot, cache, fsReads, nextObj, traceResult,
                   files, extraModules, extras, modulePaths, tasks, descendLog,
                   includeLog, warnings>>
    /\ UNCHANGED extVars

InitCli ==
    /\ pc = "root"
    /\ workDir = BundleWorkDir
    /\ extraModules \in SeqsUpTo(ExtraUniverse \cup LocalPaths, MaxExtra)
    /\ \E layout \in BundleLayouts : \E a \in SubSeqs(<<"b", "c">>, MaxDeps) :
         disk = layout @@ [r \in PkgRoots |->
                             PkgManifest(FALSE, << >>, IF r = PkgA THEN a ELSE << >>)]
    /\ wsCur = PathString(workDir, TRUE)
    /\ wsRoot = Pending
    /\ cache = << >>
    /\ fsReads = << >>
    /\ nextObj = 1
    /\ traceResult \in BundleTraces
    /\ files = {}
    /\ extras = {}
    /\ modulePaths = {}
    /\ tasks = << >>
    /\ descendLog = << >>
    /\ includeLog = << >>
    /\ warnings = {}
    /\ ExtIdle

NextCli ==
    \/ FindWorkspaceRootStep
    \/ TraceFilesStep
    \/ \E id \in CallIds : \E i \in 1..(MaxDeps + MaxExtra) : ModuleStep(id, i)
    \/ \E i \in 1..MaxExtra : LocalPathStep(i)
    \/ \E id \in DOMAIN tasks : LoadManifest(id)
    \/ CliManifestStep

SpecCli == InitCli /\ [][NextCli]_vars

\* the loop body has run for entry i
EntryProcessed(i) ==
    IF startsWithDotOrSlash(extraModules[i])
    THEN RelString(relative(wsRoot, LocalSegs(extraModules[i], workDir))) \in extras
    ELSE <<i>> \in DOMAIN tasks

\* C29 (as claimed): a run of cliBundle that has left the loop over
\* extraModules has processed every entry, local paths included, and is at
\* the manifest-writing and archiveFiles steps.
C29_EveryEntryThenArchive ==
    pc \in {"returned", "archive"} =>
        /\ \A i \in 1..Len(extraModules) : EntryProcessed(i)
        /\ pc = "archive"

(***************************************************************************)
(* parseEntryPoints on arrays of distinct paths.                           *)
(***************************************************************************)
\* entryPoints given as an array that holds no path twice
DistinctArray(form) ==
    /\ form.type = "array"
    /\ \A i, j \in DOMAIN form.value : form.value[i].path = form.value[j].path => i = j

\* C30 (as claimed): in a run that is past its checks, for an array of
\* distinct entry-point paths, given in the config file or in the options,
\* parseEntryPoints has returned a record with as many entries as the array
\* has paths.
C30_NoEntryPointDropped ==
    pc \in {"work", "returned"} =>
        \A form \in {config.fileEntryPoints, config.optionsEntryPoints} :
            DistinctArray(form) =>
                LET parsed == parseEntryPoints(form)
                IN  /\ ~parsed.threw
                    /\ Cardinality(DOMAIN parsed.value) = Len(form.value)

====
